---- MODULE Spec2Model ----
(***************************************************************************)
(* Model of the chat bridge of CalmBot (src/cogs/chat_bridge.py): the      *)
(* tick driver ChatBridge.sync_loop with its poller, high-water-mark       *)
(* deduplicator, filter chain, command interceptor and fanout dispatcher,  *)
(* and the sanitizer ChatBridge._sanitize_for_minecraft.                   *)
(*                                                                         *)
(* Python strings are sequences of one-character strings, so that the      *)
(* string operations of the code (replace, startswith, in, split, lower,   *)
(* f-string interpolation) are computed as the code computes them.         *)
(***************************************************************************)
EXTENDS Integers, Sequences, FiniteSets, Bags, TLC

VARIABLES
    bridge_data,        \* self.bridge_data: groups (ordered) and instance_settings
    instances,          \* self.instances: names in the endpoint registry
    high_water_marks,   \* self.high_water_marks: endpoint -> NoMark or [ts, hashes]
    failure_counts,     \* self.failure_counts (a missing key reads as 0)
    sessions,           \* self.amp_bridge._sessions: endpoints with a cached session
    log,                \* environment: the append-only console log of each endpoint
    clock,              \* environment: the current instant
    sent,               \* bag of console sends spawned (create_task(_send_message_safe))
    sink_posts,         \* bag of sink posts spawned (_send_discord_message_webhook)
    cmd_tasks,          \* bag of spawned handle_minecraft_command tasks
    topic_tasks,        \* groups for which an _update_channel_topic task was spawned
    fails_left,         \* environment: failed polls still allowed in this behaviour
    env,                \* environment: which consoles log, and what they log
    last,               \* history: the successful polls of the tick just run
    seed,               \* history: the batch that seeded each watermark
    accepted,           \* history: bag of the entries accepted per endpoint
    covered,            \* environment: length of the log prefix the polls have returned
    polls,              \* history: the polls of the tick just run, TRUE for a success
    health,             \* history: per endpoint, its failed polls in a row and its heals
    console_listeners,  \* self.console_listeners: the listeners of !item handlers
    waiting,            \* the !item handlers started: task, future and position
    handled,            \* bag of the tasks whose handle_minecraft_command has started
    replies,            \* bags of the console sends and sink posts of the handlers
    text,               \* sanitizer run: the input string
    safe,               \* sanitizer run: the returned string
    san_pc,             \* sanitizer run: "off", "start" or "done"
    loaded,             \* whether the cog is in the bot, which calls its listeners
    loop,               \* the task of sync_loop: "running" or "cancelled"
    relayed,            \* bag of console sends spawned by on_message
    chats,              \* environment: the Discord messages on_message has seen
    tried,              \* history: bag of the console sends attempted, with outcome
    ended,              \* bag of the console sends and sink posts whose task has ended
    posted,             \* history: bag of the sink posts run to their end, with calls
    hung,               \* bag of the tasks awaiting a call that never returns
    last_topic_update,  \* group_data["last_topic_update"]: the groups that have one
    channel_topic,      \* channel.topic of the sink channels, once edited
    topic_runs,         \* bag of the _update_channel_topic tasks at one of their awaits
    topic_calls         \* history: bag of the lookups and edits the topic tasks began

main_vars == <<bridge_data, instances, high_water_marks, failure_counts, sessions,
               log, clock, sent, sink_posts, cmd_tasks, topic_tasks, fails_left,
               env, last, seed, accepted, covered, polls, health,
               console_listeners, waiting, handled, replies>>
san_vars == <<text, safe, san_pc>>
task_vars == <<loaded, loop, relayed, chats, tried, ended, posted, hung, last_topic_update,
               channel_topic, topic_runs, topic_calls>>
vars == <<main_vars, san_vars, task_vars>>

(***************************************************************************)
(* Bounds of the model.                                                    *)
(***************************************************************************)
MaxLog == 2        \* console entries logged in one behaviour, all endpoints
MaxFail == 1       \* failed polls in one behaviour
MaxCount == 6      \* failed polls in a row of an endpoint whose polls keep failing
MaxStrLen == 3     \* length of the sanitizer's input

(***************************************************************************)
(* Python string operations on sequences of characters.                    *)
(***************************************************************************)
\* the lower-case letter of each upper-case letter
LowerOf ==
    [A |-> "a", B |-> "b", C |-> "c", D |-> "d", E |-> "e", F |-> "f", G |-> "g",
     H |-> "h", I |-> "i", J |-> "j", K |-> "k", L |-> "l", M |-> "m", N |-> "n",
     O |-> "o", P |-> "p", Q |-> "q", R |-> "r", S |-> "s", T |-> "t", U |-> "u",
     V |-> "v", W |-> "w", X |-> "x", Y |-> "y", Z |-> "z"]

LowerChar(c) == IF c \in DOMAIN LowerOf THEN LowerOf[c] ELSE c

\* str.lower()
RECURSIVE StrLower(_)
StrLower(s) == IF s = <<>> THEN <<>> ELSE <<LowerChar(Head(s))>> \o StrLower(Tail(s))

\* str.startswith(p)
StartsWith(s, p) == Len(s) >= Len(p) /\ SubSeq(s, 1, Len(p)) = p

\* p in s
Contains(s, p) == \E i \in 1..(Len(s) - Len(p) + 1) : SubSeq(s, i, i + Len(p) - 1) = p

\* str.replace(c, r) for a one-character c
RECURSIVE StrReplace(_, _, _)
StrReplace(s, c, r) ==
    IF s = <<>> THEN <<>>
    ELSE (IF Head(s) = c THEN r ELSE <<Head(s)>>) \o StrReplace(Tail(s), c, r)

\* str.split(" ")[0]
RECURSIVE FirstWord(_)
FirstWord(s) ==
    IF s = <<>> \/ Head(s) = " " THEN <<>>
    ELSE <<Head(s)>> \o FirstWord(Tail(s))

\* sep.join(parts)
RECURSIVE Join(_, _)
Join(sep, parts) ==
    IF parts = <<>> THEN <<>>
    ELSE IF Len(parts) = 1 THEN parts[1]
    ELSE parts[1] \o sep \o Join(sep, Tail(parts))

\* str.title(): a letter after a letter is lowered, any other letter raised
IsLetter(c) == c \in DOMAIN LowerOf \/ \E u \in DOMAIN LowerOf : LowerOf[u] = c
UpperChar(c) ==
    IF \E u \in DOMAIN LowerOf : LowerOf[u] = c
    THEN CHOOSE u \in DOMAIN LowerOf : LowerOf[u] = c
    ELSE c

RECURSIVE TitleFrom(_, _)
TitleFrom(s, inword) ==
    IF s = <<>> THEN <<>>
    ELSE <<IF ~IsLetter(Head(s)) THEN Head(s)
           ELSE IF inword THEN LowerChar(Head(s)) ELSE UpperChar(Head(s))>>
         \o TitleFrom(Tail(s), IsLetter(Head(s)))

StrTitle(s) == TitleFrom(s, FALSE)

(***************************************************************************)
(* ChatBridge._sanitize_for_minecraft.  The Python literal '\"' of the     *)
(* last replace is the one-character string '"'.                           *)
(***************************************************************************)
\* the sanitizer with the replace of backslashes left out
SanitizeKeepBackslash(s) ==
    IF s = <<>> THEN <<>>
    ELSE StrReplace(StrReplace(StrReplace(s, "\n", <<" ">>), "\r", <<>>), "\"", <<"\"">>)

_sanitize_for_minecraft(s) ==
    IF s = <<>> THEN <<>>
    ELSE StrReplace(
             StrReplace(
                 StrReplace(StrReplace(s, "\n", <<" ">>), "\r", <<>>),
                 "\\", <<"\\", "\\">>),
             "\"", <<"\"">>)

(***************************************************************************)
(* Topology: endpoints, registry entries and bridge_data.                  *)
(***************************************************************************)
Endpoints == {"A", "B", "C"}

\* _is_minecraft(instance): the module of the registry entry
_is_minecraft(name) == name = "A"

\* the endpoint name as a Python string (names are one character long)
NameStr(name) == <<name>>

NoChannel == 0      \* group_data.get("channel_id") is None
Channel == 1        \* a linked channel that bot.get_channel resolves

\* dict.get(key, default), and the empty dict
Get(d, k, default) == IF k \in DOMAIN d THEN d[k] ELSE default
EmptyDict == [k \in {} |-> k]

Group(name, servers, active, channel_id) ==
    [name |-> name, servers |-> servers, active |-> active, channel_id |-> channel_id]

Settings == [A |-> [alias |-> <<"S", "1">>]]

\* bridge_data as the configuration UI can have written it
OneGroup ==
    [groups |-> <<Group("g1", <<"A", "B">>, TRUE, Channel)>>,
     instance_settings |-> Settings]
TwoGroups ==
    [groups |-> <<Group("g1", <<"A", "B">>, TRUE, NoChannel),
                  Group("g2", <<"B", "A">>, TRUE, NoChannel)>>,
     instance_settings |-> Settings]
DisabledGroup ==
    [groups |-> <<Group("g1", <<"A", "B">>, FALSE, Channel),
                  Group("g2", <<"A">>, TRUE, NoChannel)>>,
     instance_settings |-> Settings]

TrioGroup ==
    [groups |-> <<Group("g1", <<"A", "B", "C">>, TRUE, NoChannel)>>,
     instance_settings |-> Settings]
SoloGroup ==
    [groups |-> <<Group("g1", <<"A">>, TRUE, NoChannel)>>,
     instance_settings |-> Settings]

\* B is listed with A by two active groups, with C by one of them and by an
\* inactive group
RelayGroups ==
    [groups |-> <<Group("g1", <<"A", "B", "C">>, TRUE, Channel),
                  Group("g2", <<"B", "A">>, TRUE, NoChannel),
                  Group("g3", <<"C", "B">>, FALSE, NoChannel)>>,
     instance_settings |-> Settings]

Groups == bridge_data.groups
SeqRange(s) == {s[i] : i \in 1..Len(s)}
Servers(g) == SeqRange(g.servers)

(***************************************************************************)
(* Console entries.  A timestamp is an instant 1, 2, ..., or missing       *)
(* (NoTs: "if not ts"), or a string datetime.fromisoformat rejects (BadTs).*)
(***************************************************************************)
NoTs == 0
BadTs == -1

Entry(ts, source, contents, type) ==
    [timestamp |-> ts, source |-> source, contents |-> contents, type |-> type]

Alice == <<"A", "l", "i", "c", "e">>
Bob == <<"B", "o", "b">>
Hello == <<"h", "e", "l", "l", "o">>
Hi == <<"h", "i">>
ChatType == <<"C", "h", "a", "t">>
ConsoleType == <<"C", "o", "n", "s", "o", "l", "e">>

\* lines (source, contents, type) a console can log
AliceHello == <<Alice, Hello, ChatType>>
BobHi == <<Bob, Hi, ChatType>>
ColonSender == <<<<"a", ":", "b">>, <<"c">>, ChatType>>
ColonContents == <<<<"a">>, <<"b", ":", "c">>, ChatType>>
AliceOnline == <<Alice, <<"!", "o", "n", "l", "i", "n", "e">>, ChatType>>
\* the bounds of line 545 on the length of a sender
MinUserLen == 1
MaxUserLen == 32

ConsoleSender == <<"C", "o", "n", "s", "o", "l", "e">>
ConsoleHi == <<ConsoleSender, Hi, ChatType>>
EchoLine == <<Bob, <<"[", "S", "1", "]", " ", "<", "B", "o", "b", ">", " ", "h", "i">>, ChatType>>
NoSender == <<<<>>, Hi, ChatType>>
\* a player message that opens with a tag of its own: "[lol] hi"
TagHi == <<Alice, <<"[", "l", "o", "l", "]", " ", "h", "i">>, ChatType>>
LongSender == <<[i \in 1..(MaxUserLen + 1) |-> "x"], Hi, ChatType>>
BangHelpMe == <<Alice, <<"!", "H", "e", "l", "p", " ", "m", "e">>, ChatType>>
BangHello == <<Alice, <<"!", "h", "e", "l", "l", "o">>, ChatType>>
BadUser == <<"a", "\n", "b">>
BadHelp == <<BadUser, <<"!", "h", "e", "l", "p">>, ChatType>>
BangItem == <<Alice, <<"!", "i", "t", "e", "m">>, ChatType>>
ItemData ==
    <<<<"S", "e", "r", "v", "e", "r">>,
      Alice \o <<" ", "h", "a", "s", " ", "t", "h", "e", " ", "f", "o", "l", "l", "o", "w", "i", "n", "g", " ", "e", "n", "t", "i", "t", "y", " ", "d", "a", "t", "a", ":", " ", "\"", "m", "i", "n", "e", "c", "r", "a", "f", "t", ":", "i", "r", "o", "n", "_", "o", "r", "e", "\"">>,
      ConsoleType>>
ServerDone == <<<<"S", "e", "r", "v", "e", "r">>, <<"D", "o", "n", "e">>, ConsoleType>>

\* the runs of the model: a topology, the consoles that log (talkers), the lines
\* they log, whether a line can carry a missing or malformed timestamp, and
\* whether polls can fail; registry is what cog_load has fetched, registries
\* what a later fetch can return, unstable whether polls can keep failing, room
\* how many entries the consoles log, script the lines they log in their order
\* when the run fixes it, console and discord how the servers and Discord answer
\* the calls of the tasks ("ok", "error", or "silent" for no answer at all), chat
\* how many Discord messages reach on_message, players the lists of players a
\* server can report to a task, unload whether the bot removes the cog, topics
\* whether the topic tasks get to run
Scenario(topology, talkers, lines, malformed, fails) ==
    [bridge_data |-> topology, talkers |-> talkers, lines |-> lines,
     malformed |-> malformed, fails |-> fails,
     registry |-> Endpoints, registries |-> {}, unstable |-> FALSE, room |-> MaxLog,
     script |-> <<>>, console |-> {"ok"}, discord |-> {"ok"}, chat |-> 0,
     players |-> {<<>>}, unload |-> FALSE, topics |-> FALSE]

Scenarios ==
    { Scenario(OneGroup, {"A"}, {AliceHello, BobHi}, FALSE, FALSE),
      Scenario(OneGroup, {"B"}, {ColonSender, ColonContents}, FALSE, FALSE),
      Scenario(OneGroup, {"A"}, {AliceHello}, TRUE, FALSE),
      Scenario(OneGroup, {"A"}, {BobHi}, FALSE, TRUE),
      Scenario(TwoGroups, {"A"}, {AliceHello, AliceOnline}, FALSE, FALSE),
      Scenario(DisabledGroup, {"A"}, {BobHi, ServerDone}, FALSE, FALSE) }

(***************************************************************************)
(* sync_loop, step 3: parse, sort, seed or deduplicate (lines 484-527).    *)
(***************************************************************************)
Parseable(e) == e.timestamp # NoTs /\ e.timestamp # BadTs

\* the parse with lines 488 and 494-495 left out: every entry is kept
ParseEntriesKeepAll(batch) == batch

\* lines 485-498: parsed_entries, in batch order
ParseEntries(batch) == SelectSeq(batch, Parseable)

\* list.sort(key=ts) is stable: e goes behind the entries that are not later
RECURSIVE InsertByTs(_, _)
InsertByTs(sorted, e) ==
    IF sorted = <<>> THEN <<e>>
    ELSE IF Head(sorted).timestamp <= e.timestamp
         THEN <<Head(sorted)>> \o InsertByTs(Tail(sorted), e)
         ELSE <<e>> \o sorted

RECURSIVE SortByTs(_)
SortByTs(s) ==
    IF s = <<>> THEN <<>>
    ELSE InsertByTs(SortByTs(SubSeq(s, 1, Len(s) - 1)), s[Len(s)])

\* the string f"{user}:{msg}" handed to hash(); Python's hash of a str is taken
\* to be injective on the strings of the model
MsgHash(user, msg) == user \o <<":">> \o msg

EntryHash(e) == MsgHash(e.source, e.contents)

\* seeding from the first entry of the batch instead of the last
SeedMarkFirst(parsed, now) ==
    IF parsed # <<>>
    THEN [ts |-> parsed[1].timestamp, hashes |-> {EntryHash(parsed[1])}]
    ELSE [ts |-> now, hashes |-> {}]

\* lines 503-510: the watermark a first batch leaves
SeedMark(parsed, now) ==
    IF parsed # <<>>
    THEN [ts |-> parsed[Len(parsed)].timestamp,
          hashes |-> {EntryHash(parsed[Len(parsed)])}]
    ELSE [ts |-> now, hashes |-> {}]

\* the comparison without the skip of older entries (line 516 left out)
AdmitAnyOrder(wm, e) ==
    IF e.timestamp = wm.ts
    THEN IF EntryHash(e) \in wm.hashes
         THEN [wm |-> wm, ok |-> FALSE]
         ELSE [wm |-> [ts |-> wm.ts, hashes |-> wm.hashes \cup {EntryHash(e)}],
               ok |-> TRUE]
    ELSE [wm |-> [ts |-> e.timestamp, hashes |-> {EntryHash(e)}], ok |-> TRUE]

\* the comparison without the reset of the hashes by a later entry (line 527 as
\* an add to the set)
AdmitKeepHashes(wm, e) ==
    IF e.timestamp < wm.ts THEN [wm |-> wm, ok |-> FALSE]
    ELSE IF e.timestamp = wm.ts /\ EntryHash(e) \in wm.hashes
         THEN [wm |-> wm, ok |-> FALSE]
         ELSE [wm |-> [ts |-> e.timestamp, hashes |-> wm.hashes \cup {EntryHash(e)}],
               ok |-> TRUE]

\* lines 516-527: one entry against the watermark
Admit(wm, e) ==
    IF e.timestamp < wm.ts THEN [wm |-> wm, ok |-> FALSE]
    ELSE IF e.timestamp = wm.ts
         THEN IF EntryHash(e) \in wm.hashes
              THEN [wm |-> wm, ok |-> FALSE]
              ELSE [wm |-> [ts |-> wm.ts, hashes |-> wm.hashes \cup {EntryHash(e)}],
                    ok |-> TRUE]
         ELSE [wm |-> [ts |-> e.timestamp, hashes |-> {EntryHash(e)}], ok |-> TRUE]

(***************************************************************************)
(* sync_loop, the filter chain (lines 539-552).                            *)
(***************************************************************************)
\* re.match(r"^\\[.+?\\] <.+?> .+", msg): in the raw string, \\ is an escaped
\* backslash and [.+?\\] a character class, so the pattern asks for a backslash,
\* one of . + ? \, then " <", one or more characters, "> " and one more character
\* ("." matches anything but a newline)
EchoRegexMatches(msg) ==
    /\ Len(msg) >= 8
    /\ msg[1] = "\\"
    /\ msg[2] \in {".", "+", "?", "\\"}
    /\ msg[3] = " "
    /\ msg[4] = "<"
    /\ \E k \in 1..(Len(msg) - 7) :
          /\ \A j \in 5..(4 + k) : msg[j] # "\n"
          /\ msg[5 + k] = ">"
          /\ msg[6 + k] = " "
          /\ msg[7 + k] # "\n"

system_users ==
    { <<"s", "e", "r", "v", "e", "r">>,
      <<"c", "o", "n", "s", "o", "l", "e">>,
      <<"r", "c", "o", "n">>,
      <<"t", "i", "p">>,
      <<"f", "t", "b", "t", "e", "a", "m", "b", "a", "s", "e", "s">>,
      <<"d", "i", "m", "d", "u", "n", "g", "e", "o", "n", "s">>,
      <<"c", "o", "m", "p", "a", "c", "t", "m", "a", "c", "h", "i", "n", "e", "s">>,
      <<"s", "t", "o", "r", "a", "g", "e">>,
      <<"t", "w", "i", "l", "i", "g", "h", "t">>,
      <<"t", "h", "e">>,
      <<"o", "v", "e", "r", "w", "o", "r", "l", "d">>,
      <<"n", "e", "t", "h", "e", "r">>,
      <<"e", "n", "d">>,
      <<"i", "r", "o", "n", "s", "_", "s", "p", "e", "l", "l", "b", "o", "o", "k", "s">>,
      <<"f", "t", "b">>,
      <<"i", "r", "r", "e", "g", "u", "l", "a", "r", "_", "i", "m", "p", "l", "e", "m", "e", "n", "t", "s">>,
      <<"s", "p", "a", "t", "i", "a", "l">> }

\* the filters without the check of the sender's length (line 545 left out)
PassesFiltersAnyLength(e) ==
    LET user == e.source
        msg == e.contents
        msg_type == StrLower(e.type)
        msg_lower == StrLower(msg)
    IN  /\ ~(user = <<>> \/ msg = <<>>)
        /\ Contains(msg_type, <<"c", "h", "a", "t">>)
        /\ ~EchoRegexMatches(msg)
        /\ ~(StartsWith(msg, <<"[">>) /\ Contains(msg, <<"]">>))
        /\ ~(Contains(msg_lower, <<"t", "p", "s">>) /\ Contains(msg_lower, <<"m", "s", "/", "t", "i", "c", "k">>))
        /\ ~StartsWith(msg_lower, <<"p", "r", "i", "v", "a", "t", "e", "_", "f", "o", "r", "_">>)
        /\ StrLower(user) \notin system_users

\* the filters without the test of line 544 (a content that starts with "[" and
\* holds a "]")
PassesFiltersNoTag(e) ==
    LET user == e.source
        msg == e.contents
        msg_type == StrLower(e.type)
        msg_lower == StrLower(msg)
    IN  /\ ~(user = <<>> \/ msg = <<>>)
        /\ Contains(msg_type, <<"c", "h", "a", "t">>)
        /\ ~EchoRegexMatches(msg)
        /\ ~(Len(user) < MinUserLen \/ Len(user) > MaxUserLen)
        /\ ~(Contains(msg_lower, <<"t", "p", "s">>) /\ Contains(msg_lower, <<"m", "s", "/", "t", "i", "c", "k">>))
        /\ ~StartsWith(msg_lower, <<"p", "r", "i", "v", "a", "t", "e", "_", "f", "o", "r", "_">>)
        /\ StrLower(user) \notin system_users

PassesFilters(e) ==
    LET user == e.source
        msg == e.contents
        msg_type == StrLower(e.type)
        msg_lower == StrLower(msg)
    IN  /\ ~(user = <<>> \/ msg = <<>>)
        /\ Contains(msg_type, <<"c", "h", "a", "t">>)
        /\ ~EchoRegexMatches(msg)
        /\ ~(StartsWith(msg, <<"[">>) /\ Contains(msg, <<"]">>))
        /\ ~(Len(user) < MinUserLen \/ Len(user) > MaxUserLen)
        /\ ~(Contains(msg_lower, <<"t", "p", "s">>) /\ Contains(msg_lower, <<"m", "s", "/", "t", "i", "c", "k">>))
        /\ ~StartsWith(msg_lower, <<"p", "r", "i", "v", "a", "t", "e", "_", "f", "o", "r", "_">>)
        /\ StrLower(user) \notin system_users

(***************************************************************************)
(* sync_loop, step 3.5: command interception (lines 559-584).              *)
(***************************************************************************)
valid_commands == { <<"!", "o", "n", "l", "i", "n", "e">>, <<"!", "h", "e", "l", "p">>, <<"!", "i", "t", "e", "m">> }

\* the check of line 575 without the .lower() of line 574
IsCommandCaseSensitive(msg) ==
    StartsWith(msg, <<"!">>) /\ FirstWord(msg) \in valid_commands

\* the check of line 575 without the look-up in valid_commands
IsCommandAnyWord(msg) == StartsWith(msg, <<"!">>)

IsCommand(msg) ==
    StartsWith(msg, <<"!">>) /\ StrLower(FirstWord(msg)) \in valid_commands

\* lines 562-566: the first group, active or not, that lists the source
ParentGroups(source_name) == {i \in 1..Len(Groups) : source_name \in Servers(Groups[i])}
Min(S) == CHOOSE x \in S : \A y \in S : x <= y

(***************************************************************************)
(* sync_loop, step 4: the commands of the fanout (lines 604-629).          *)
(***************************************************************************)
DefaultColor == <<"a", "q", "u", "a">>

TellrawMinecraft(safe_source, color, safe_user, safe_msg) ==
    <<"t", "e", "l", "l", "r", "a", "w", " ", "@", "a", " ", "[", "\"", "\"", ",", "{", "\"", "t", "e", "x", "t", "\"", ":", "\"", "[">>
    \o safe_source \o
    <<"]", " ", "\"", ",", " ", "\"", "c", "o", "l", "o", "r", "\"", ":", " ", "\"">>
    \o color \o
    <<"\"", "}", ",", " ", "{", " ", "\"", "t", "e", "x", "t", "\"", ":", " ", "\"", "<">>
    \o safe_user \o
    <<">", " ", "\"", ",", " ", "\"", "c", "o", "l", "o", "r", "\"", ":", " ", "\"", "w", "h", "i", "t", "e", "\"", " ", "}", ",", " ", "{", " ", "\"", "t", "e", "x", "t", "\"", ":", " ", "\"">>
    \o safe_msg \o
    <<"\"", ",", " ", "\"", "c", "o", "l", "o", "r", "\"", ":", " ", "\"", "w", "h", "i", "t", "e", "\"", " ", "}", "]">>

TellrawGeneric(safe_source, safe_user, safe_msg) ==
    <<"t", "e", "l", "l", "r", "a", "w", " ", "@", "a", " ", "\"", "[">>
    \o safe_source \o <<"]", " ", "<">> \o safe_user \o <<">", " ">> \o safe_msg \o <<"\"">>

\* lines 605-607
DisplayName(source_name) ==
    Get(Get(bridge_data.instance_settings, source_name, EmptyDict), "alias", NameStr(source_name))
DisplayColor(source_name) ==
    Get(Get(bridge_data.instance_settings, source_name, EmptyDict), "color", DefaultColor)

\* lines 620-627: the command sent to target_name for (user, msg) of source_name
FanoutCommand(source_name, target_name, user, msg) ==
    LET safe_user == _sanitize_for_minecraft(user)
        safe_msg == _sanitize_for_minecraft(msg)
        safe_source == _sanitize_for_minecraft(DisplayName(source_name))
    IN  IF _is_minecraft(target_name)
        THEN TellrawMinecraft(safe_source, DisplayColor(source_name), safe_user, safe_msg)
        ELSE TellrawGeneric(safe_source, safe_user, safe_msg)

AvatarPrefix == <<"h", "t", "t", "p", "s", ":", "/", "/", "m", "c", "-", "h", "e", "a", "d", "s", ".", "n", "e", "t", "/", "a", "v", "a", "t", "a", "r", "/">>

(***************************************************************************)
(* sync_loop, steps 1 and 2: the poll set and the poll results.            *)
(***************************************************************************)
\* the poll set without the skip of inactive groups (line 436 left out)
ActiveInstancesAnyGroup ==
    {name \in Endpoints :
        \E i \in 1..Len(Groups) : name \in Servers(Groups[i]) /\ name \in instances}

\* lines 434-439
ActiveInstances ==
    {name \in Endpoints :
        \E i \in 1..Len(Groups) :
            Groups[i].active /\ name \in Servers(Groups[i]) /\ name \in instances}

\* the orders a batch can come in
RECURSIVE Permute(_)
Permute(s) ==
    IF s = <<>> THEN {<<>>}
    ELSE UNION {{<<s[i]>> \o p : p \in Permute(SubSeq(s, 1, i - 1) \o SubSeq(s, i + 1, Len(s)))} :
                i \in 1..Len(s)}

\* _fetch_update_safe (lines 81-93): None after a timeout or an error, else the
\* updates, whose console_entries are a window of the log up to its end, in any
\* order (get_updates does not promise one). A window overlaps the windows
\* before it or starts where they ended: no poll skips a logged entry
FailedPoll == [ok |-> FALSE, start |-> 0, batch |-> <<>>]

PollOutcomes(name) ==
    {FailedPoll}
    \cup UNION {{[ok |-> TRUE, start |-> i, batch |-> b] :
                    b \in Permute(SubSeq(log[name], i, Len(log[name])))} :
                i \in 1..(covered[name] + 1)}

HealThreshold == 5

\* the failure handling without the reset on success (line 454 left out)
FailureCountNoReset(name, ok) ==
    LET count == Get(failure_counts, name, 0) + 1
    IN  IF ok THEN Get(failure_counts, name, 0)
        ELSE IF count >= HealThreshold /\ name \in instances' THEN 0 ELSE count

\* lines 451-476: failure counter and session reset of one polled endpoint
\* (the registry is read again at line 466, after the polls were awaited)
FailureCountAfter(name, ok) ==
    IF ok THEN 0
    ELSE LET count == Get(failure_counts, name, 0) + 1
         IN  IF count >= HealThreshold /\ name \in instances' THEN 0 ELSE count

SessionsAfter(polled, results) ==
    (sessions \cup {name \in polled : results[name].ok})
    \ {name \in polled :
          /\ ~results[name].ok
          /\ Get(failure_counts, name, 0) + 1 >= HealThreshold
          /\ name \in instances'}

(***************************************************************************)
(* sync_loop, step 3 for one endpoint (lines 481-557).                     *)
(***************************************************************************)
\* lines 515-554: the loop over parsed_entries; acc collects the entries that
\* pass the watermark, valid the ones that also pass the filters (valid_new)
RECURSIVE ScanEntries(_, _, _, _)
ScanEntries(wm, parsed, acc, valid) ==
    IF parsed = <<>> THEN [wm |-> wm, acc |-> acc, valid |-> valid]
    ELSE LET e == Head(parsed)
             r == Admit(wm, e)
         IN  ScanEntries(r.wm, Tail(parsed),
                         IF r.ok THEN Append(acc, e) ELSE acc,
                         IF r.ok /\ PassesFilters(e) THEN Append(valid, e) ELSE valid)

\* the first pass with a failed poll starting the watermark over
ProcessUpdatesResetting(name, res, now) ==
    LET parsed == SortByTs(ParseEntries(res.batch))
        had == name \in DOMAIN high_water_marks
    IN  IF ~res.ok
        THEN [marked |-> TRUE, wm |-> SeedMark(<<>>, now),
              acc |-> <<>>, valid |-> <<>>, seeding |-> FALSE]
        ELSE IF res.batch = <<>>
        THEN [marked |-> had,
              wm |-> IF had THEN high_water_marks[name] ELSE SeedMark(<<>>, now),
              acc |-> <<>>, valid |-> <<>>, seeding |-> FALSE]
        ELSE IF ~had
        THEN [marked |-> TRUE, wm |-> SeedMark(parsed, now),
              acc |-> <<>>, valid |-> <<>>, seeding |-> TRUE]
        ELSE LET r == ScanEntries(high_water_marks[name], parsed, <<>>, <<>>)
             IN  [marked |-> TRUE, wm |-> r.wm, acc |-> r.acc, valid |-> r.valid,
                  seeding |-> FALSE]

\* what the first pass does with the result of one endpoint:
\*   marked: whether high_water_marks holds the endpoint afterwards
ProcessUpdates(name, res, now) ==
    LET parsed == SortByTs(ParseEntries(res.batch))
        had == name \in DOMAIN high_water_marks
    IN  IF ~res.ok \/ res.batch = <<>>
        THEN [marked |-> had,
              wm |-> IF had THEN high_water_marks[name] ELSE SeedMark(<<>>, now),
              acc |-> <<>>, valid |-> <<>>, seeding |-> FALSE]
        ELSE IF ~had
        THEN [marked |-> TRUE, wm |-> SeedMark(parsed, now),
              acc |-> <<>>, valid |-> <<>>, seeding |-> TRUE]
        ELSE LET r == ScanEntries(high_water_marks[name], parsed, <<>>, <<>>)
             IN  [marked |-> TRUE, wm |-> r.wm, acc |-> r.acc, valid |-> r.valid,
                  seeding |-> FALSE]

(***************************************************************************)
(* sync_loop, steps 3.5 and 4 on new_messages_per_server.                  *)
(***************************************************************************)
\* lines 560-584: the stream after interception, and the handler tasks spawned
Intercepted(source_name, messages) ==
    IF ParentGroups(source_name) = {} THEN messages
    ELSE SelectSeq(messages, LAMBDA e : ~IsCommand(e.contents))

\* line 577; entry is history: the console entry the task was spawned for
CommandTasks(new_messages) ==
    UNION {{[source |-> name, user |-> e.source, msg |-> e.contents,
             group |-> Groups[Min(ParentGroups(name))].name, entry |-> e] :
               e \in {m \in SeqRange(new_messages[name]) : IsCommand(m.contents)}} :
           name \in {n \in DOMAIN new_messages : ParentGroups(n) # {}}}

\* the fanout without the look-up of the target in the registry (line 618 left out)
GroupSendsAnyTarget(i, messages) ==
    IF ~Groups[i].active THEN {}
    ELSE UNION {{[target |-> t, src |-> n, entry |-> e,
                  cmd |-> FanoutCommand(n, t, e.source, e.contents)] :
                    t \in Servers(Groups[i]) \ {n},
                    e \in SeqRange(messages[n])} :
                n \in Servers(Groups[i]) \cap DOMAIN messages}

\* the fanout without the skip of the source itself (line 616 left out)
GroupSendsEcho(i, messages) ==
    IF ~Groups[i].active THEN {}
    ELSE UNION {{[target |-> t, src |-> n, entry |-> e,
                  cmd |-> FanoutCommand(n, t, e.source, e.contents)] :
                    t \in Servers(Groups[i]) \cap instances',
                    e \in SeqRange(messages[n])} :
                n \in Servers(Groups[i]) \cap DOMAIN messages}

\* lines 587-629: the console sends the second pass spawns for group i: one per
\* source of the group with messages, message, and other member of the group that
\* is in the registry; src and entry are history (where the message came from)
GroupSends(i, messages) ==
    IF ~Groups[i].active THEN {}
    ELSE UNION {{[target |-> t, src |-> n, entry |-> e,
                  cmd |-> FanoutCommand(n, t, e.source, e.contents)] :
                    t \in (Servers(Groups[i]) \cap instances') \ {n},
                    e \in SeqRange(messages[n])} :
                n \in Servers(Groups[i]) \cap DOMAIN messages}

\* lines 596-598 and 631-634: the sink posts the second pass spawns for group i
GroupSinkPosts(i, messages) ==
    IF ~Groups[i].active \/ Groups[i].channel_id = NoChannel THEN {}
    ELSE UNION {{[channel |-> Groups[i].channel_id, user |-> e.source,
                  msg |-> e.contents, source_name |-> DisplayName(n),
                  avatar_url |-> IF n \in instances' /\ _is_minecraft(n)
                                 THEN AvatarPrefix \o e.source ELSE <<>>,
                  entry |-> e] :
                    e \in SeqRange(messages[n])} :
                n \in Servers(Groups[i]) \cap DOMAIN messages}

\* the loop over the groups (line 587), from group i on
RECURSIVE FanoutSends(_, _)
FanoutSends(i, messages) ==
    IF i > Len(Groups) THEN EmptyBag
    ELSE SetToBag(GroupSends(i, messages)) (+) FanoutSends(i + 1, messages)

RECURSIVE FanoutSinkPosts(_, _)
FanoutSinkPosts(i, messages) ==
    IF i > Len(Groups) THEN EmptyBag
    ELSE SetToBag(GroupSinkPosts(i, messages)) (+) FanoutSinkPosts(i + 1, messages)

\* line 637: one topic task per active group that lists a server
TopicGroups == {Groups[i].name : i \in {k \in 1..Len(Groups) :
                                          Groups[k].active /\ Len(Groups[k].servers) >= 1}}

(***************************************************************************)
(* handle_minecraft_command (lines 271-388) and the listeners of !item.    *)
(***************************************************************************)
\* a future without a result
NoResult == <<>>

\* (.+?)" at the head of s: the shortest run of one or more characters, none a
\* newline, that a quote follows; NoResult if there is none
LazyItem(s) ==
    LET K == {k \in 1..(Len(s) - 1) : s[k + 1] = "\""}
    IN  IF K = {} THEN NoResult
        ELSE IF \E j \in 1..Min(K) : s[j] = "\n" THEN NoResult
        ELSE SubSeq(s, 1, Min(K))

\* (?:[^:]+:)?(.+?)" at the head of s: group 1, after the namespace if one can
\* be taken (one or more characters up to the first colon)
ItemTail(s) ==
    LET C == {i \in 1..Len(s) : s[i] = ":"}
        named == IF C # {} /\ Min(C) >= 2
                 THEN LazyItem(SubSeq(s, Min(C) + 1, Len(s)))
                 ELSE NoResult
    IN  IF named # NoResult THEN named ELSE LazyItem(s)

\* line 334: the pattern after re.escape(user), up to the opening quote
ItemPrefixTail ==
    <<" ", "h", "a", "s", " ", "t", "h", "e", " ", "f", "o", "l", "l", "o", "w", "i", "n", "g",
      " ", "e", "n", "t", "i", "t", "y", " ", "d", "a", "t", "a", ":", " ", "\"">>

\* line 334: regex.search(msg).group(1) for the pattern of user; NoResult when
\* nothing matches
ItemMatch(user, msg) ==
    LET prefix == user \o ItemPrefixTail
        P == {i \in 1..(Len(msg) - Len(prefix) + 1) :
                 /\ SubSeq(msg, i, i + Len(prefix) - 1) = prefix
                 /\ ItemTail(SubSeq(msg, i + Len(prefix), Len(msg))) # NoResult}
    IN  IF P = {} THEN NoResult
        ELSE ItemTail(SubSeq(msg, Min(P) + Len(prefix), Len(msg)))

\* lines 529-537 for listener l and the entries of its source that passed the
\* watermark in this tick: the match of the first entry that matches
RECURSIVE Heard(_, _)
Heard(l, entries) ==
    IF entries = <<>> THEN NoResult
    ELSE IF ItemMatch(l.user, Head(entries).contents) # NoResult
    THEN ItemMatch(l.user, Head(entries).contents)
    ELSE Heard(l, Tail(entries))

\* fetch_server_status (lines 160-218) of one server: not listed (None), or its
\* sorted players; a server outside the registry, stopped or unreachable is
\* not listed, and a server that is not Minecraft is listed only with players
Unlisted == [listed |-> FALSE, players |-> <<>>]
PlayerLists == {<<>>, <<Bob>>, <<Alice, Bob>>}
StatusOutcomes(name) ==
    {Unlisted} \cup
    {[listed |-> TRUE, players |-> ps] :
        ps \in {x \in PlayerLists : name \in instances /\ (_is_minecraft(name) \/ x # <<>>)}}

\* _get_online_players (lines 146-228): alias and players of the listed servers
\* of the group, in the order of the group
RECURSIVE OnlineRows(_, _)
OnlineRows(servers, status) ==
    IF servers = <<>> THEN <<>>
    ELSE (IF status[Head(servers)].listed
          THEN <<[alias |-> DisplayName(Head(servers)),
                  players |-> status[Head(servers)].players]>>
          ELSE <<>>)
         \o OnlineRows(Tail(servers), status)

_get_online_players(group_data, status) == OnlineRows(group_data.servers, status)

\* lines 291 and 306
NoneText == <<"N", "o", "n", "e">>
PList(players) == IF players = <<>> THEN NoneText ELSE Join(<<",", " ">>, players)

\* lines 285-293: the pieces of the tellraw JSON of !online
OnlineHeadMc ==
    <<"[", "\"", "\"", ",", "{", "\"", "t", "e", "x", "t", "\"", ":", "\"", "[", "S", "y", "s",
      "t", "e", "m", "]", " ", "\"", ",", " ", "\"", "c", "o", "l", "o", "r", "\"", ":", " ",
      "\"", "g", "o", "l", "d", "\"", "}", ",", " ", "{", "\"", "t", "e", "x", "t", "\"", ":",
      " ", "\"", "O", "n", "l", "i", "n", "e", " ", "P", "l", "a", "y", "e", "r", "s", ":",
      "\"", ",", " ", "\"", "c", "o", "l", "o", "r", "\"", ":", " ", "\"", "y", "e", "l", "l",
      "o", "w", "\"", "}">>

OnlineNoneMc ==
    <<",", "{", "\"", "t", "e", "x", "t", "\"", ":", "\"", "\\", "n", "N", "o", " ", "p", "l",
      "a", "y", "e", "r", "s", " ", "o", "n", "l", "i", "n", "e", ".", "\"", ",", " ", "\"",
      "c", "o", "l", "o", "r", "\"", ":", " ", "\"", "g", "r", "a", "y", "\"", "}", "]">>

\* line 292 for one server
OnlineRowMc(server_alias, p_list) ==
    <<",", " ", "{", "\"", "t", "e", "x", "t", "\"", ":", " ", "\"", "\\", "n">>
    \o server_alias
    \o <<":", " ", "\"", ",", " ", "\"", "c", "o", "l", "o", "r", "\"", ":", " ", "\"", "a", "q",
      "u", "a", "\"", "}", ",", " ", "{", "\"", "t", "e", "x", "t", "\"", ":", " ", "\"">>
    \o p_list
    \o <<"\"", ",", " ", "\"", "c", "o", "l", "o", "r", "\"", ":", " ", "\"", "w", "h", "i", "t",
      "e", "\"", "}">>

RECURSIVE OnlineRowsMc(_)
OnlineRowsMc(online_data) ==
    IF online_data = <<>> THEN <<>>
    ELSE OnlineRowMc(Head(online_data).alias, PList(Head(online_data).players))
         \o OnlineRowsMc(Tail(online_data))

\* lines 300-309: the plain text of !online
OnlineHeadGeneric ==
    <<"[", "S", "y", "s", "t", "e", "m", "]", " ", "O", "n", "l", "i", "n", "e", " ", "P", "l",
      "a", "y", "e", "r", "s", ":">>

OnlineNoneGeneric ==
    <<"N", "o", " ", "p", "l", "a", "y", "e", "r", "s", " ", "o", "n", "l", "i", "n", "e", ".">>

RECURSIVE OnlineLines(_)
OnlineLines(online_data) ==
    IF online_data = <<>> THEN <<>>
    ELSE <<Head(online_data).alias \o <<":", " ">> \o PList(Head(online_data).players)>>
         \o OnlineLines(Tail(online_data))

Tellraw ==
    <<"t", "e", "l", "l", "r", "a", "w", " ">>

TellrawAll ==
    <<"t", "e", "l", "l", "r", "a", "w", " ", "@", "a", " ", "\"">>

\* lines 281-311: final_cmd of !online
OnlineCommand(is_minecraft, user, online_data) ==
    IF is_minecraft
    THEN Tellraw \o user \o <<" ">> \o OnlineHeadMc
         \o (IF online_data = <<>> THEN OnlineNoneMc
             ELSE OnlineRowsMc(online_data) \o <<"]">>)
    ELSE TellrawAll
         \o Join(<<" ", "|", " ">>,
                 <<OnlineHeadGeneric>>
                 \o (IF online_data = <<>> THEN <<OnlineNoneGeneric>>
                     ELSE OnlineLines(online_data)))
         \o <<"\"">>

\* lines 315 and 318: help_msg, and the command for other servers
HelpMc ==
    <<"[", "\"", "\"", ",", "{", "\"", "t", "e", "x", "t", "\"", ":", "\"", "[", "S", "y", "s",
      "t", "e", "m", "]", " ", "\"", ",", " ", "\"", "c", "o", "l", "o", "r", "\"", ":", " ",
      "\"", "g", "o", "l", "d", "\"", "}", ",", " ", "{", "\"", "t", "e", "x", "t", "\"", ":",
      " ", "\"", "A", "v", "a", "i", "l", "a", "b", "l", "e", " ", "C", "o", "m", "m", "a",
      "n", "d", "s", ":", "\\", "n", "\"", ",", " ", "\"", "c", "o", "l", "o", "r", "\"", ":",
      " ", "\"", "y", "e", "l", "l", "o", "w", "\"", "}", ",", " ", "{", "\"", "t", "e", "x",
      "t", "\"", ":", " ", "\"", "!", "o", "n", "l", "i", "n", "e", " ", "\"", ",", " ", "\"",
      "c", "o", "l", "o", "r", "\"", ":", " ", "\"", "a", "q", "u", "a", "\"", "}", ",", " ",
      "{", "\"", "t", "e", "x", "t", "\"", ":", " ", "\"", "-", " ", "L", "i", "s", "t", " ",
      "o", "n", "l", "i", "n", "e", " ", "p", "l", "a", "y", "e", "r", "s", "\"", ",", " ",
      "\"", "c", "o", "l", "o", "r", "\"", ":", " ", "\"", "w", "h", "i", "t", "e", "\"", "}",
      ",", " ", "{", "\"", "t", "e", "x", "t", "\"", ":", " ", "\"", "\\", "n", "!", "i", "t",
      "e", "m", " ", "\"", ",", " ", "\"", "c", "o", "l", "o", "r", "\"", ":", " ", "\"", "a",
      "q", "u", "a", "\"", "}", ",", " ", "{", "\"", "t", "e", "x", "t", "\"", ":", " ", "\"",
      "-", " ", "S", "h", "o", "w", " ", "h", "e", "l", "d", " ", "i", "t", "e", "m", "\"",
      ",", " ", "\"", "c", "o", "l", "o", "r", "\"", ":", " ", "\"", "w", "h", "i", "t", "e",
      "\"", "}", "]">>

HelpGeneric ==
    <<"t", "e", "l", "l", "r", "a", "w", " ", "@", "a", " ", "\"", "[", "S", "y", "s", "t",
      "e", "m", "]", " ", "A", "v", "a", "i", "l", "a", "b", "l", "e", " ", "C", "o", "m", "m",
      "a", "n", "d", "s", ":", " ", "!", "o", "n", "l", "i", "n", "e", " ", "-", " ", "L", "i",
      "s", "t", " ", "o", "n", "l", "i", "n", "e", " ", "p", "l", "a", "y", "e", "r", "s",
      "\"">>

\* lines 315-320: final_cmd of !help
HelpCommand(is_minecraft, user) ==
    IF is_minecraft THEN Tellraw \o user \o <<" ">> \o HelpMc ELSE HelpGeneric

\* line 329: cmd_check of !item
ItemCheckCommand(user) ==
    <<"d", "a", "t", "a", " ", "g", "e", "t", " ", "e", "n", "t", "i", "t", "y", " ">>
    \o user
    \o <<" ", "S", "e", "l", "e", "c", "t", "e", "d", "I", "t", "e", "m", ".", "i", "d">>

\* lines 350-362: the broadcast of !item
ItemCommand(source_name, user, item_name) ==
    LET safe_user == _sanitize_for_minecraft(user)
        safe_source == _sanitize_for_minecraft(DisplayName(source_name))
        safe_item == _sanitize_for_minecraft(item_name)
    IN
        <<"t", "e", "l", "l", "r", "a", "w", " ", "@", "a", " ", "[", "\"", "\"", ",", "{",
          "\"", "t", "e", "x", "t", "\"", ":", "\"", "[">>
        \o safe_source
        \o <<"]", " ", "\"", ",", " ", "\"", "c", "o", "l", "o", "r", "\"", ":", " ", "\"">>
        \o DisplayColor(source_name)
        \o <<"\"", "}", ",", " ", "{", " ", "\"", "t", "e", "x", "t", "\"", ":", " ", "\"", "<">>
        \o safe_user
        \o <<">", " ", "\"", ",", " ", "\"", "c", "o", "l", "o", "r", "\"", ":", " ", "\"", "w",
          "h", "i", "t", "e", "\"", " ", "}", ",", " ", "{", " ", "\"", "t", "e", "x", "t",
          "\"", ":", " ", "\"", "[">>
        \o safe_item
        \o <<"]", "\"", ",", " ", "\"", "c", "o", "l", "o", "r", "\"", ":", " ", "\"", "l", "i",
          "g", "h", "t", "_", "p", "u", "r", "p", "l", "e", "\"", " ", "}", "]">>

\* line 376: the title of the embed after the user
SharedTitle ==
    <<" ", "S", "h", "a", "r", "e", "d", " ", "a", "n", " ", "I", "t", "e", "m">>

\* the group a task was spawned with (parent_group of line 577)
GroupNamed(name) == Groups[CHOOSE i \in 1..Len(Groups) : Groups[i].name = name]

\* a console send of a handler; kind, online_data and item are history
Reply(task, kind, target, cmd, online_data, item) ==
    [task |-> task, kind |-> kind, target |-> target, cmd |-> cmd,
     online_data |-> online_data, item |-> item]

\* the handler up to its first suspension that other code can observe: !online
\* and !help to their end, !item to the await of its first send (line 330).
\* status is what the servers answer _get_online_players
handle_minecraft_command(task, status) ==
    LET command == StrLower(FirstWord(task.msg))
        is_minecraft == _is_minecraft(task.source)
        group_data == GroupNamed(task.group)
        online_data == _get_online_players(group_data, status)
        said(kind, cmd, data) ==
            [replies EXCEPT !.sends =
                @ (+) SetToBag({Reply(task, kind, task.source, cmd, data, NoResult)})]
    IN  /\ san_pc = "off"
        /\ CopiesIn(task, handled) < CopiesIn(task, cmd_tasks)
        /\ handled' = handled (+) SetToBag({task})
        /\ command = <<"!", "o", "n", "l", "i", "n", "e">> \/ status = [n \in Endpoints |-> Unlisted]
        /\ IF task.source \notin instances                       \* line 275
           THEN UNCHANGED <<replies, waiting>>
           ELSE IF command = <<"!", "o", "n", "l", "i", "n", "e">>
           THEN /\ replies' = said("online", OnlineCommand(is_minecraft, task.user, online_data),
                                   online_data)
                /\ UNCHANGED waiting
           ELSE IF command = <<"!", "h", "e", "l", "p">>
           THEN /\ replies' = said("help", HelpCommand(is_minecraft, task.user), <<>>)
                /\ UNCHANGED waiting
           ELSE IF command = <<"!", "i", "t", "e", "m">> /\ is_minecraft
           THEN /\ replies' = said("check", ItemCheckCommand(task.user), <<>>)
                /\ waiting' = Append(waiting, [task |-> task, fut |-> NoResult, pc |-> "check"])
           ELSE UNCHANGED <<replies, waiting>>
        /\ last' = EmptyDict
        /\ polls' = EmptyDict
        /\ UNCHANGED <<bridge_data, instances, high_water_marks, failure_counts, sessions,
                       log, clock, sent, sink_posts, cmd_tasks, topic_tasks, fails_left,
                       env, seed, accepted, covered, health, console_listeners, san_vars, task_vars>>

\* lines 332-339: after the first send, the !item handler registers its listener
item_listen(id) ==
    /\ san_pc = "off"
    /\ id \in DOMAIN waiting
    /\ waiting[id].pc = "check"
    /\ console_listeners' =
           Append(console_listeners,
                  [id |-> id, source |-> waiting[id].task.source,
                   user |-> waiting[id].task.user])
    /\ waiting' = [waiting EXCEPT ![id].pc = "wait"]
    /\ last' = EmptyDict
    /\ polls' = EmptyDict
    /\ UNCHANGED <<bridge_data, instances, high_water_marks, failure_counts, sessions,
                   log, clock, sent, sink_posts, cmd_tasks, topic_tasks, fails_left,
                   env, seed, accepted, covered, health, handled, replies, san_vars, task_vars>>

\* lines 343-380 and 386-388: the future has a result; the item is broadcast to
\* the servers of the group in the registry, the source among them, and posted
\* to the sink of the group
item_reply(id) ==
    /\ san_pc = "off"
    /\ id \in DOMAIN waiting
    /\ waiting[id].pc = "wait"
    /\ waiting[id].fut # NoResult
    /\ LET task == waiting[id].task
           group_data == GroupNamed(task.group)
           item_id == waiting[id].fut
           item_name == StrTitle(StrReplace(item_id, "_", <<" ">>))
           cmd == ItemCommand(task.source, task.user, item_name)
       IN  replies' =
               [sends |-> replies.sends (+)
                    SetToBag({Reply(task, "item", target_name, cmd, <<>>, item_id) :
                                 target_name \in Servers(group_data) \cap instances}),
                posts |-> replies.posts (+)
                    SetToBag({[task |-> task, channel |-> group_data.channel_id,
                               user |-> task.user,
                               title |-> task.user \o SharedTitle,
                               description |-> item_name,
                               source_name |-> DisplayName(task.source),
                               avatar_url |-> AvatarPrefix \o task.user] :
                                 c \in {group_data.channel_id} \ {NoChannel}})]
    /\ console_listeners' = SelectSeq(console_listeners, LAMBDA l : l.id # id)
    /\ waiting' = [waiting EXCEPT ![id].pc = "done"]
    /\ last' = EmptyDict
    /\ polls' = EmptyDict
    /\ UNCHANGED <<bridge_data, instances, high_water_marks, failure_counts, sessions,
                   log, clock, sent, sink_posts, cmd_tasks, topic_tasks, fails_left,
                   env, seed, accepted, covered, health, handled, san_vars, task_vars>>

\* the end of the wait without the finally block of lines 386-388
item_timeout_leak(id) ==
    /\ san_pc = "off"
    /\ id \in DOMAIN waiting
    /\ waiting[id].pc = "wait"
    /\ waiting[id].fut = NoResult
    /\ waiting' = [waiting EXCEPT ![id].pc = "done"]
    /\ last' = EmptyDict
    /\ polls' = EmptyDict
    /\ UNCHANGED <<bridge_data, instances, high_water_marks, failure_counts, sessions,
                   log, clock, sent, sink_posts, cmd_tasks, topic_tasks, fails_left,
                   env, seed, accepted, covered, health, console_listeners, handled,
                   replies, san_vars, task_vars>>

\* the end of the wait falling through to the broadcast of lines 362-368
item_timeout_broadcast(id) ==
    /\ san_pc = "off"
    /\ id \in DOMAIN waiting
    /\ waiting[id].pc = "wait"
    /\ waiting[id].fut = NoResult
    /\ LET task == waiting[id].task
           cmd == ItemCommand(task.source, task.user, <<>>)
       IN  replies' =
               [replies EXCEPT !.sends = @ (+)
                    SetToBag({Reply(task, "item", target_name, cmd, <<>>, NoResult) :
                                 target_name \in Servers(GroupNamed(task.group))
                                                     \cap instances})]
    /\ console_listeners' = SelectSeq(console_listeners, LAMBDA l : l.id # id)
    /\ waiting' = [waiting EXCEPT ![id].pc = "done"]
    /\ last' = EmptyDict
    /\ polls' = EmptyDict
    /\ UNCHANGED <<bridge_data, instances, high_water_marks, failure_counts, sessions,
                   log, clock, sent, sink_posts, cmd_tasks, topic_tasks, fails_left,
                   env, seed, accepted, covered, health, handled, san_vars, task_vars>>

\* lines 382-383 and 386-388: the wait of 4 seconds ends without a result
item_timeout(id) ==
    /\ san_pc = "off"
    /\ id \in DOMAIN waiting
    /\ waiting[id].pc = "wait"
    /\ waiting[id].fut = NoResult
    /\ console_listeners' = SelectSeq(console_listeners, LAMBDA l : l.id # id)
    /\ waiting' = [waiting EXCEPT ![id].pc = "done"]
    /\ last' = EmptyDict
    /\ polls' = EmptyDict
    /\ UNCHANGED <<bridge_data, instances, high_water_marks, failure_counts, sessions,
                   log, clock, sent, sink_posts, cmd_tasks, topic_tasks, fails_left,
                   env, seed, accepted, covered, health, handled, replies, san_vars, task_vars>>

(***************************************************************************)
(* The tick: ChatBridge.sync_loop (lines 429-637).  The polls of a tick    *)
(* are awaited together, the rest of the tick runs without suspension.     *)
(***************************************************************************)
NoMark == [ts |-> NoTs, hashes |-> {}]

\* the results asyncio.gather can return for one endpoint (lines 445-446); an
\* endpoint outside the poll set has no result and counts as not polled
CanFail(name) ==
    \/ fails_left > 0
    \/ env.unstable /\ Get(failure_counts, name, 0) < MaxCount

OutcomesOf(name) ==
    IF name \in ActiveInstances
    THEN {r \in PollOutcomes(name) : r.ok \/ CanFail(name)}
    ELSE {FailedPoll}

\* the registry after the polls were awaited: _refresh_instances, which the
\* configuration UI calls (lines 753, 843), can have run in between
RegistryRace == {instances} \cup env.registries

\* history of the failure handling (lines 451-476) of one polled endpoint:
\*   streak: its failed polls in a row since its last success or heal
\*   since:  its failed polls since its last session-reset attempt (line 460),
\*           counted up to HealThreshold
\*   gap:    its failed polls from one session-reset attempt to the next, for
\*           the last two attempts (HealThreshold when there were fewer)
HealthAfter(name, ok) ==
    LET h == health[name]
        count == Get(failure_counts, name, 0) + 1
        since == IF h.since + 1 < HealThreshold THEN h.since + 1 ELSE HealThreshold
    IN  IF ok THEN [h EXCEPT !.streak = 0]
        ELSE IF count >= HealThreshold
             THEN [streak |-> IF name \in instances' THEN 0 ELSE h.streak + 1,
                   since |-> 0, gap |-> since]
             ELSE [h EXCEPT !.streak = @ + 1, !.since = since]

\* line 510: datetime.now(timezone.utc) is the clock of the bot, read only when a
\* first batch holds no parseable entry; it shows the instant of the consoles'
\* stamps or, running ahead of them, the next one
NowOutcomes(results) ==
    IF \E n \in ActiveInstances :
           /\ results[n].ok
           /\ results[n].batch # <<>>
           /\ n \notin DOMAIN high_water_marks
           /\ ParseEntries(results[n].batch) = <<>>
    THEN {clock, clock + 1}
    ELSE {clock}

\* the scan without the remove of lines 536-537: a matched listener stays
ScanListenersKeep(proc) == console_listeners

\* lines 530-537 over the entries accepted in the tick: the listeners left, which
\* are those no accepted entry of their source matches
ScanListeners(proc) ==
    SelectSeq(console_listeners, LAMBDA l : Heard(l, proc[l.source].acc) = NoResult)

\* lines 531-535: the future of a listener in the list gets the first match, if
\* it is not done (a future with a result is done)
ResolveFutures(proc) ==
    [id \in DOMAIN waiting |->
        LET ls == {l \in SeqRange(console_listeners) : l.id = id}
        IN  IF ls # {} /\ waiting[id].fut = NoResult
            THEN LET l == CHOOSE x \in ls : TRUE
                 IN  [waiting[id] EXCEPT !.fut = Heard(l, proc[l.source].acc)]
            ELSE waiting[id]]

\* lines 448-637 on the gathered results
Tick(results, now) ==
    LET polled == ActiveInstances
        oks == {n \in polled : results[n].ok}
        pa == ProcessUpdates("A", results["A"], now)
        pb == ProcessUpdates("B", results["B"], now)
        pc == ProcessUpdates("C", results["C"], now)
        proc == [A |-> pa, B |-> pb, C |-> pc]
        new_messages == [n \in {m \in polled : proc[m].valid # <<>>} |-> proc[n].valid]
        ka == Intercepted("A", pa.valid)
        kb == Intercepted("B", pb.valid)
        kc == Intercepted("C", pc.valid)
        kept == [A |-> ka, B |-> kb, C |-> kc]
        messages == [n \in {m \in DOMAIN new_messages : kept[m] # <<>>} |-> kept[n]]
    IN  /\ env.unstable \/ Cardinality(polled \ oks) <= fails_left
        /\ fails_left' = IF env.unstable THEN fails_left
                          ELSE fails_left - Cardinality(polled \ oks)
        /\ polls' = [n \in polled |-> results[n].ok]
        /\ health' = [n \in Endpoints |->
                         IF n \in polled THEN HealthAfter(n, results[n].ok)
                         ELSE health[n]]
        /\ failure_counts' =
               [n \in DOMAIN failure_counts \cup polled |->
                   IF n \in polled THEN FailureCountAfter(n, results[n].ok)
                   ELSE failure_counts[n]]
        /\ sessions' = SessionsAfter(polled, results)
        /\ high_water_marks' =
               [n \in DOMAIN high_water_marks \cup {m \in polled : proc[m].marked} |->
                   IF n \in polled THEN proc[n].wm ELSE high_water_marks[n]]
        /\ cmd_tasks' = cmd_tasks (+) SetToBag(CommandTasks(new_messages))
        /\ sent' = sent (+) FanoutSends(1, messages)
        /\ sink_posts' = sink_posts (+) FanoutSinkPosts(1, messages)
        /\ topic_tasks' = topic_tasks \cup TopicGroups
        /\ last' = [n \in DOMAIN last \cup oks |->
                       IF n \in oks
                       THEN [batch |-> SeqRange(results[n].batch),
                             had |-> n \in DOMAIN high_water_marks,
                             pre |-> Get(high_water_marks, n, NoMark),
                             acc |-> SeqRange(proc[n].acc),
                             valid |-> SeqRange(proc[n].valid),
                             fwd |-> SeqRange(Get(messages, n, <<>>)),
                             repeat |-> /\ n \in DOMAIN last
                                        /\ last[n].batch = SeqRange(results[n].batch)]
                       ELSE last[n]]
        /\ seed' = [n \in DOMAIN seed \cup {m \in polled : proc[m].seeding} |->
                       IF n \in polled /\ proc[n].seeding
                       THEN [batch |-> SeqRange(results[n].batch), len |-> Len(log[n]),
                             ts |-> proc[n].wm.ts]
                       ELSE seed[n]]
        /\ accepted' = [n \in Endpoints |->
                           IF n \in polled
                           THEN accepted[n] (+) SetToBag(SeqRange(proc[n].acc))
                           ELSE accepted[n]]
        /\ covered' = [n \in Endpoints |-> IF n \in oks THEN Len(log[n]) ELSE covered[n]]
        /\ console_listeners' = ScanListeners(proc)
        /\ waiting' = ResolveFutures(proc)

\* the tick with its dispatch tasks awaited: the next tick starts when the
\* console sends spawned so far have ended
sync_loop_awaiting ==
    /\ san_pc = "off"
    /\ loop = "running"
    /\ \A r \in BagToSet(sent (+) relayed) :
           CopiesIn(r, ended) >= CopiesIn(r, sent (+) relayed)
    /\ Groups # <<>>
    /\ ActiveInstances # {}
    /\ \E registry \in RegistryRace : instances' = registry
    /\ \E ra \in OutcomesOf("A"), rb \in OutcomesOf("B"), rc \in OutcomesOf("C") :
          \E now \in NowOutcomes([A |-> ra, B |-> rb, C |-> rc]) :
              Tick([A |-> ra, B |-> rb, C |-> rc], now)
    /\ UNCHANGED <<bridge_data, log, clock, env, handled, replies, san_vars, task_vars>>

sync_loop ==
    /\ san_pc = "off"
    /\ loop = "running"                                          \* lines 56, 63
    /\ Groups # <<>>                                             \* line 431
    /\ ActiveInstances # {}                                      \* line 441
    /\ \E registry \in RegistryRace : instances' = registry
    /\ \E ra \in OutcomesOf("A"), rb \in OutcomesOf("B"), rc \in OutcomesOf("C") :
          \E now \in NowOutcomes([A |-> ra, B |-> rb, C |-> rc]) :
              Tick([A |-> ra, B |-> rb, C |-> rc], now)
    /\ UNCHANGED <<bridge_data, log, clock, env, handled, replies, san_vars, task_vars>>

(***************************************************************************)
(* The environment: the consoles log lines, time passes.                   *)
(***************************************************************************)
LogSize == Len(log["A"]) + Len(log["B"]) + Len(log["C"])

\* a console logs a line at instant ts, now or later; its entry carries stamp,
\* which is ts unless the timestamp is missing or malformed
LogLine(name, line, ts, stamp) ==
    /\ san_pc = "off"
    /\ name \in env.talkers
    /\ line \in env.lines
    /\ ts \in {clock, clock + 1}
    /\ ts # NoTs
    /\ stamp = ts \/ (env.malformed /\ stamp \in {NoTs, BadTs})
    /\ LogSize < env.room
    /\ env.script # <<>> => LogSize < Len(env.script) /\ line = env.script[LogSize + 1]
    /\ log' = [log EXCEPT ![name] = Append(@, Entry(stamp, line[1], line[2], line[3]))]
    /\ clock' = ts
    /\ last' = EmptyDict
    /\ polls' = EmptyDict
    /\ UNCHANGED <<bridge_data, instances, high_water_marks, failure_counts, sessions,
                   sent, sink_posts, cmd_tasks, topic_tasks, fails_left,
                   env, seed, accepted, covered, health,
                   console_listeners, waiting, handled, replies, san_vars, task_vars>>

(***************************************************************************)
(* The state after construction (__init__, lines 36-56, and cog_load).     *)
(***************************************************************************)
NoHealth == [streak |-> 0, since |-> HealThreshold, gap |-> HealThreshold]

InitEngine ==
    /\ high_water_marks = EmptyDict
    /\ polls = EmptyDict
    /\ health = [n \in Endpoints |-> NoHealth]
    /\ failure_counts = EmptyDict
    /\ sessions = {}
    /\ log = [n \in Endpoints |-> <<>>]
    /\ clock = 0
    /\ sent = EmptyBag
    /\ sink_posts = EmptyBag
    /\ cmd_tasks = EmptyBag
    /\ topic_tasks = {}
    /\ last = EmptyDict
    /\ seed = EmptyDict
    /\ accepted = [n \in Endpoints |-> EmptyBag]
    /\ covered = [n \in Endpoints |-> 0]
    /\ console_listeners = <<>>
    /\ waiting = <<>>
    /\ handled = EmptyBag
    /\ replies = [sends |-> EmptyBag, posts |-> EmptyBag]
    /\ loaded = TRUE
    /\ loop = "running"
    /\ relayed = EmptyBag
    /\ chats = 0
    /\ tried = EmptyBag
    /\ ended = EmptyBag
    /\ posted = EmptyBag
    /\ hung = EmptyBag
    /\ last_topic_update = {}
    /\ channel_topic = EmptyDict
    /\ topic_runs = EmptyBag
    /\ topic_calls = EmptyBag

\* history, in env: the last call of _refresh_instances that the run records,
\* with what the fetch gave and the registry before and after the call
NoFetch == [outcome |-> "none", fetched |-> {}, before |-> {}, after |-> {}]

\* __init__ and cog_load in one of the runs
InitScenario(sc) ==
    /\ bridge_data = sc.bridge_data
    /\ instances = sc.registry
    /\ env = [talkers |-> sc.talkers, lines |-> sc.lines, malformed |-> sc.malformed,
              registries |-> sc.registries, unstable |-> sc.unstable, room |-> sc.room,
              script |-> sc.script, console |-> sc.console, discord |-> sc.discord,
              chat |-> sc.chat, players |-> sc.players, unload |-> sc.unload,
              topics |-> sc.topics, fetch |-> NoFetch]
    /\ fails_left = IF sc.fails THEN MaxFail ELSE 0

Init ==
    /\ \E sc \in Scenarios : InitScenario(sc)
    /\ InitEngine
    /\ text = <<>>
    /\ safe = <<>>
    /\ san_pc = "off"

AllLines == UNION {sc.lines : sc \in Scenarios}

Next ==
    \/ sync_loop
    \/ \E name \in Endpoints, line \in AllLines, ts \in {clock, clock + 1},
          stamp \in {NoTs, BadTs, clock, clock + 1} :
           LogLine(name, line, ts, stamp)

Spec == Init /\ [][Next]_vars

(***************************************************************************)
(* The registry and the failure handling: the runs of Spec with            *)
(* _refresh_instances (lines 65-79) and with polls that keep failing.      *)
(***************************************************************************)
\* fetched: the names fetch_valid_instances returns; nothing fetched, or an
\* error, leaves the registry as it is
\* the registry replaced by whatever was fetched, without the test of line 69
RefreshedAlways(fetched) == fetched

\* lines 69-76: the registry after the call
Refreshed(fetched) == IF fetched = {} THEN instances ELSE fetched

_refresh_instances(fetched) ==
    /\ san_pc = "off"
    /\ instances' = Refreshed(fetched)
    /\ last' = EmptyDict
    /\ polls' = EmptyDict
    /\ UNCHANGED <<bridge_data, high_water_marks, failure_counts, sessions, log, clock,
                   sent, sink_posts, cmd_tasks, topic_tasks, fails_left,
                   env, seed, accepted, covered, health,
                   console_listeners, waiting, handled, replies, san_vars, task_vars>>

HealthScenarios ==
    { [Scenario(SoloGroup, {}, {}, FALSE, FALSE)
          EXCEPT !.unstable = TRUE, !.registries = {{"B"}, {"A", "B"}}],
      [Scenario(TwoGroups, {"A"}, {AliceHello}, FALSE, FALSE)
          EXCEPT !.registries = {{"A"}, {"A", "B"}}],
      Scenario(DisabledGroup, {"A"}, {BobHi}, FALSE, FALSE) }

HealthInit ==
    /\ \E sc \in HealthScenarios : InitScenario(sc)
    /\ InitEngine
    /\ text = <<>>
    /\ safe = <<>>
    /\ san_pc = "off"

HealthNext ==
    \/ sync_loop
    \/ \E name \in Endpoints, line \in AllLines, ts \in {clock, clock + 1},
          stamp \in {NoTs, BadTs, clock, clock + 1} :
           LogLine(name, line, ts, stamp)
    \/ \E fetched \in env.registries \cup {{}} : _refresh_instances(fetched)

SpecHealth == HealthInit /\ [][HealthNext]_vars

(***************************************************************************)
(* The filters, the interception and the fanout on groups of three: the    *)
(* runs of Spec with senders and contents the filters and line 575 tell    *)
(* apart.                                                                  *)
(***************************************************************************)
RelayScenarios ==
    { [Scenario(RelayGroups, {"B"}, {AliceHello}, FALSE, FALSE)
          EXCEPT !.registries = {{"A", "B"}}],
      Scenario(OneGroup, {"A"}, {ConsoleHi, EchoLine}, FALSE, FALSE),
      Scenario(OneGroup, {"A"}, {NoSender, LongSender}, FALSE, FALSE),
      Scenario(OneGroup, {"B"}, {BangHelpMe, BangHello}, FALSE, FALSE),
      Scenario(OneGroup, {"A"}, {TagHi}, FALSE, FALSE) }

RelayLines == UNION {sc.lines : sc \in RelayScenarios}

RelayInit ==
    /\ \E sc \in RelayScenarios : InitScenario(sc)
    /\ InitEngine
    /\ text = <<>>
    /\ safe = <<>>
    /\ san_pc = "off"

RelayNext ==
    \/ sync_loop
    \/ \E name \in Endpoints, line \in RelayLines, ts \in {clock, clock + 1} :
           LogLine(name, line, ts, ts)

SpecRelay == RelayInit /\ [][RelayNext]_vars

(***************************************************************************)
(* The command handlers: the runs of Spec with the tasks that line 577     *)
(* spawns, on a Minecraft server (A) and on another one (B).               *)
(***************************************************************************)
CommandScenarios ==
    { Scenario(OneGroup, {"A"}, {BadHelp, AliceOnline}, FALSE, FALSE),
      Scenario(OneGroup, {"B"}, {BadHelp, AliceOnline}, FALSE, FALSE),
      [Scenario(OneGroup, {"A"}, {BangItem, ItemData}, FALSE, FALSE)
          EXCEPT !.room = MaxLog + 1],
      [Scenario(OneGroup, {"B"}, {BangItem}, FALSE, FALSE)
          EXCEPT !.registries = {{"A"}}] }

CommandLines == UNION {sc.lines : sc \in CommandScenarios}

\* what the servers can answer one call of _get_online_players
StatusChoices ==
    {status \in [Endpoints -> {Unlisted} \cup {[listed |-> TRUE, players |-> ps] :
                                                   ps \in PlayerLists}] :
        \A n \in Endpoints : status[n] \in StatusOutcomes(n)}

CommandInit ==
    /\ \E sc \in CommandScenarios : InitScenario(sc)
    /\ InitEngine
    /\ text = <<>>
    /\ safe = <<>>
    /\ san_pc = "off"

CommandNext ==
    \/ sync_loop
    \/ \E name \in Endpoints, line \in CommandLines, ts \in {clock, clock + 1} :
           LogLine(name, line, ts, ts)
    \/ \E task \in BagToSet(cmd_tasks), status \in StatusChoices :
           handle_minecraft_command(task, status)
    \/ \E id \in DOMAIN waiting : item_listen(id)
    \/ \E id \in DOMAIN waiting : item_reply(id)
    \/ \E id \in DOMAIN waiting : item_timeout(id)

SpecCommands == CommandInit /\ [][CommandNext]_vars

(***************************************************************************)
(* The sanitizer as a pure function: one call on each bounded input.       *)
(***************************************************************************)
SanAlphabet == {"a", "\"", "\\", "\n", "\r"}

SanInputs == UNION {[1..n -> SanAlphabet] : n \in 0..MaxStrLen}

SanitizeCall ==
    /\ san_pc = "start"
    /\ safe' = _sanitize_for_minecraft(text)
    /\ san_pc' = "done"
    /\ UNCHANGED <<main_vars, text, task_vars>>

SanInit ==
    /\ bridge_data = [groups |-> <<>>, instance_settings |-> EmptyDict]
    /\ instances = Endpoints
    /\ env = [talkers |-> {}, lines |-> {}, malformed |-> FALSE,
              registries |-> {}, unstable |-> FALSE, room |-> 0, script |-> <<>>,
              console |-> {"ok"}, discord |-> {"ok"}, chat |-> 0, players |-> {<<>>},
              unload |-> FALSE, topics |-> FALSE]
    /\ InitEngine
    /\ fails_left = 0
    /\ text \in SanInputs
    /\ safe = <<>>
    /\ san_pc = "start"

SanNext == SanitizeCall

SpecSan == SanInit /\ [][SanNext]_vars

(***************************************************************************)
(* Properties of the sanitizer, checked under SpecSan.                     *)
(***************************************************************************)
\* the characters the sanitizer's contract names
HasSpecial(s) == \E i \in 1..Len(s) : s[i] \in {"\"", "\\", "\n", "\r"}

\* reading s from the left as the inside of a quoted string, where a backslash
\* escapes the character behind it: TRUE iff no quote is read unescaped
RECURSIVE NoBareQuote(_)
NoBareQuote(s) ==
    IF s = <<>> THEN TRUE
    ELSE IF Head(s) = "\\" THEN (Len(s) = 1 \/ NoBareQuote(SubSeq(s, 3, Len(s))))
    ELSE Head(s) # "\"" /\ NoBareQuote(Tail(s))

\* the unescape of the sanitizer's escapes: \\ to \ and \" to ", from the left
RECURSIVE Unescape(_)
Unescape(s) ==
    IF s = <<>> THEN <<>>
    ELSE IF Len(s) >= 2 /\ s[1] = "\\" /\ s[2] \in {"\\", "\""}
         THEN <<s[2]>> \o Unescape(SubSeq(s, 3, Len(s)))
         ELSE <<Head(s)>> \o Unescape(Tail(s))

\* what the sanitizer does to line ends before it escapes (line 98)
Flattened(s) == StrReplace(StrReplace(s, "\n", <<" ">>), "\r", <<>>)

\* C9: for every input with a double quote, a backslash or a line end, the
\* sanitized output holds no raw newline, no carriage return and no double quote
\* that a backslash does not escape.
C9_SanitizerSafety ==
    (san_pc = "done" /\ HasSpecial(text)) =>
        /\ \A i \in 1..Len(safe) : safe[i] \notin {"\n", "\r"}
        /\ NoBareQuote(safe)

\* C10, as stated: for every input, the unescape of the sanitized output is the
\* original text.
C10_RoundTripAnyInput ==
    san_pc = "done" => Unescape(safe) = text

\* C10, amended: for every input, the unescape of the sanitized output is the
\* original text with each newline replaced by a space and each carriage return
\* removed; it is the original text itself when the text holds neither.
C10_RoundTrip ==
    san_pc = "done" => Unescape(safe) = Flattened(text)

C10_Witness ==
    /\ san_pc = "done"
    /\ text = <<"\\", "\"", "a">>
    /\ safe = <<"\\", "\\", "\"", "a">>
    /\ Unescape(safe) = text

(***************************************************************************)
(* Properties of the deduplicator and the fanout, checked under Spec.      *)
(***************************************************************************)
Other(n) == IF n = "A" THEN "B" ELSE "A"

\* how often the send of entry e of console n to console d was spawned
Dispatches(n, d, e) ==
    CopiesIn([target |-> d, src |-> n, entry |-> e,
              cmd |-> FanoutCommand(n, d, e.source, e.contents)], sent)

\* entry k of the log of n was logged after the watermark of n was seeded, is no
\* copy of an entry logged before, is stamped no earlier than the seeded
\* watermark, and a successful poll has returned it since
FreshEntry(n, k) ==
    /\ n \in DOMAIN seed
    /\ k > seed[n].len
    /\ k <= covered[n]
    /\ Parseable(log[n][k])
    /\ log[n][k].timestamp >= seed[n].ts
    /\ \A j \in 1..seed[n].len : log[n][j] # log[n][k]

\* C1: for an endpoint S with a seeded watermark that shares exactly one active
\* group with D, under successful polls with overlapping windows, every chat
\* entry of the log of S that passes the filters and is no command is dispatched
\* to D exactly once in total: never twice, and once if it came after the seeding.
C1_ExactlyOnce ==
    bridge_data = OneGroup =>
        \A n \in DOMAIN seed : \A k \in 1..covered[n] :
            LET e == log[n][k]
            IN  (Parseable(e) /\ PassesFilters(e) /\ ~IsCommand(e.contents)) =>
                    /\ Dispatches(n, Other(n), e) <= 1
                    /\ FreshEntry(n, k) => Dispatches(n, Other(n), e) = 1

\* C2: for every endpoint and every watermark state, also none, when two
\* consecutive successful polls return the same set of entries, the second
\* accepts no entry.
C2_Idempotent ==
    \A n \in DOMAIN last : last[n].repeat => last[n].acc = {}

\* C3: no entry of the batch that seeded an endpoint's watermark is ever
\* accepted, in the seeding tick or in a later tick that returns it again (here:
\* while the console has logged nothing since the seeding).
C3_NoReplay ==
    \A n \in DOMAIN seed :
        Len(log[n]) = seed[n].len =>
            \A e \in seed[n].batch : CopiesIn(e, accepted[n]) = 0

\* C4: after a successful poll of an endpoint, also one that returns no console
\* entries, high_water_marks holds the endpoint.
C4_WatermarkCreated ==
    \A n \in DOMAIN last : n \in DOMAIN high_water_marks

\* C5: the watermark timestamp of an endpoint never decreases once it exists,
\* over ticks with successful, failed and empty polls and batches in any order.
C5_Monotone ==
    [][\A n \in DOMAIN high_water_marks :
           n \in DOMAIN high_water_marks' =>
               high_water_marks'[n].ts >= high_water_marks[n].ts]_vars

\* a tick has met an entry older than the watermark and has kept the watermark
C5_Witness ==
    \E n \in DOMAIN last :
        /\ last[n].had
        /\ \E e \in last[n].batch : Parseable(e) /\ e.timestamp < last[n].pre.ts
        /\ high_water_marks[n].ts = last[n].pre.ts

\* C6: with a seeded watermark, an entry (timestamp, sender, content) is accepted
\* at most once in total, and an entry that follows an entry with the same
\* timestamp and different content is accepted as well.
C6_SameInstant ==
    \A n \in DOMAIN seed :
        /\ \A e \in BagToSet(accepted[n]) : CopiesIn(e, accepted[n]) <= 1
        /\ \A j, k \in 1..Len(log[n]) :
               (/\ j < k
                /\ FreshEntry(n, k)
                /\ log[n][j].timestamp = log[n][k].timestamp
                /\ log[n][j].contents # log[n][k].contents)
               => CopiesIn(log[n][k], accepted[n]) = 1

\* the parseable entries of a batch, and the latest of their timestamps
ParseableOf(batch) == {e \in batch : Parseable(e)}
MaxTsOf(batch) == CHOOSE t \in {e.timestamp : e \in batch} :
                      \A e \in batch : e.timestamp <= t

\* C7: when an endpoint has no watermark and its batch has a parseable entry, the
\* tick sets the watermark timestamp to the maximum timestamp of the batch and
\* the hash set to exactly the hash of a latest entry, and accepts no entry.
C7_SeedingStep ==
    \A n \in DOMAIN last :
        (~last[n].had /\ ParseableOf(last[n].batch) # {}) =>
            /\ n \in DOMAIN high_water_marks
            /\ high_water_marks[n].ts = MaxTsOf(ParseableOf(last[n].batch))
            /\ \E e \in ParseableOf(last[n].batch) :
                  /\ e.timestamp = high_water_marks[n].ts
                  /\ high_water_marks[n].hashes = {MsgHash(e.source, e.contents)}
            /\ last[n].acc = {}
            /\ last[n].fwd = {}

\* a seeding tick on a batch with an earlier and a later entry
C7_Witness ==
    \E n \in DOMAIN last :
        /\ ~last[n].had
        /\ \E e1, e2 \in ParseableOf(last[n].batch) : e1.timestamp < e2.timestamp
        /\ high_water_marks[n].ts = MaxTsOf(ParseableOf(last[n].batch))

\* the entry of the end-to-end scenario, at instant t, and the command for it
\* that console B, which is no Minecraft console, must be sent
AliceHelloAt(t) == Entry(t, Alice, Hello, ChatType)
AliceHelloCommand ==
    <<"t", "e", "l", "l", "r", "a", "w", " ", "@", "a", " ", "\"",
      "[", "S", "1", "]", " ", "<", "A", "l", "i", "c", "e", ">", " ",
      "h", "e", "l", "l", "o", "\"">>

\* what the scenario expects of the step: watermark(A) = t with the hash of
\* (Alice, hello), one command to B with sender and content, none to A
ScenarioOutcome(t) ==
    /\ "A" \in DOMAIN high_water_marks'
    /\ high_water_marks'["A"] = [ts |-> t, hashes |-> {MsgHash(Alice, Hello)}]
    /\ sent' = sent (+) SetToBag({[target |-> "B", src |-> "A",
                                   entry |-> AliceHelloAt(t),
                                   cmd |-> AliceHelloCommand]})

\* C8, as stated: with A and B in one active group, when tick 1, the first poll of
\* A, obtains the single chat entry (t, Alice, hello, chat), then after the tick
\* watermark(A) = t with hash set {hash(Alice, hello)}, exactly one command with
\* sender and content is dispatched to B and none to A.
C8_FirstTick ==
    [][\A t \in 1..(MaxLog + 1) :
           (/\ bridge_data = OneGroup
            /\ "A" \notin DOMAIN high_water_marks
            /\ "A" \in DOMAIN last'
            /\ last'["A"].batch = {AliceHelloAt(t)})
           => ScenarioOutcome(t)]_vars

\* C8, amended: with A and B in one active group, when a tick polls A, whose
\* watermark exists with a timestamp below t, and obtains the single chat entry
\* (t, Alice, hello, chat), then after the tick watermark(A) = t with hash set
\* {hash(Alice, hello)}, exactly one command with sender and content is
\* dispatched to B and none to A.
C8_Scenario ==
    [][\A t \in 1..(MaxLog + 1) :
           (/\ bridge_data = OneGroup
            /\ "A" \in DOMAIN high_water_marks
            /\ high_water_marks["A"].ts < t
            /\ "A" \in DOMAIN last'
            /\ last'["A"].had
            /\ last'["A"].pre = high_water_marks["A"]
            /\ last'["A"].batch = {AliceHelloAt(t)})
           => ScenarioOutcome(t)]_vars

\* the tick of the amended scenario has run
C8_Witness ==
    /\ bridge_data = OneGroup
    /\ "A" \in DOMAIN last
    /\ last["A"].had
    /\ \E t \in 1..(MaxLog + 1) :
          /\ last["A"].batch = {AliceHelloAt(t)}
          /\ last["A"].pre.ts < t
          /\ high_water_marks["A"] = [ts |-> t, hashes |-> {MsgHash(Alice, Hello)}]
          /\ Dispatches("A", "B", AliceHelloAt(t)) = 1

(***************************************************************************)
(* Properties of the poll set and the failure handling, checked under      *)
(* SpecHealth.                                                             *)
(***************************************************************************)
\* C17: between two session-reset attempts of sync_loop for an endpoint there are
\* at least 5 failed polls of it, also when the endpoint is absent from the
\* registry at the attempt: no attempt on consecutive failed polls.
C17_EdgeTriggered ==
    \A n \in Endpoints : health[n].gap >= HealThreshold

\* C18: whenever the failure counter of an endpoint reaches 5 in a tick, its
\* cached session is discarded and the counter reset to 0 in that tick: at every
\* tick boundary every failure counter is below 5.
C18_HealAtThreshold ==
    /\ \A n \in DOMAIN failure_counts : failure_counts[n] < HealThreshold
    /\ \A n \in DOMAIN polls :
           (~polls[n] /\ health[n].since = 0) =>
               (n \notin sessions /\ failure_counts[n] = 0)

\* C19: after every tick that polled endpoint E, failure_counts[E] is 0 if the
\* poll succeeded, and otherwise the number of failed polls of E in a row since
\* its last successful poll or its last heal.
C19_CounterSemantics ==
    \A n \in DOMAIN polls :
        /\ n \in DOMAIN failure_counts
        /\ failure_counts[n] = IF polls[n] THEN 0 ELSE health[n].streak

\* the first failed poll after a heal, and a success after failures elsewhere
C19_Witness ==
    \E n \in DOMAIN polls :
        /\ ~polls[n]
        /\ health[n].since = 1
        /\ health[n].gap = HealThreshold
        /\ failure_counts[n] = 1

\* C20: in every tick, each endpoint that is in the registry and belongs to at
\* least one active group is polled, once, also when several active groups list
\* it; an endpoint of inactive groups only, or of no group, is not polled.
C20_PollSet ==
    [][polls' # EmptyDict =>
          \A n \in Endpoints :
              n \in DOMAIN polls' <=>
                  /\ n \in instances
                  /\ \E i \in 1..Len(Groups) : Groups[i].active /\ n \in Servers(Groups[i])]_vars

\* a tick has polled A and B of two active groups and skipped C, of no group
C20_Witness ==
    /\ bridge_data = TwoGroups
    /\ instances = {"A", "B"}
    /\ DOMAIN polls = {"A", "B"}

(***************************************************************************)
(* Properties of the filters, the interception and the fanout, checked     *)
(* under SpecRelay.                                                        *)
(***************************************************************************)
\* the copies in bag of the records of S
RECURSIVE BagCount(_, _)
BagCount(bag, S) ==
    IF S = {} THEN 0
    ELSE LET r == CHOOSE x \in S : TRUE
         IN  CopiesIn(r, bag) + BagCount(bag, S \ {r})

\* the sends to console d in bag for entry e of console n, the posts to the
\* sink for it, and the handler tasks for it
SendsIn(bag, n, d, e) ==
    BagCount(bag, {r \in BagToSet(bag) : r.target = d /\ r.src = n /\ r.entry = e})
PostsIn(bag, e) == BagCount(bag, {r \in BagToSet(bag) : r.entry = e})
TasksIn(bag, n, e) ==
    BagCount(bag, {t \in BagToSet(bag) : t.source = n /\ t.entry = e})

\* in a step that is a tick with a successful poll of n, whose watermark existed:
\* the entries of n that passed the watermark and the filters in it (the
\* candidate chat messages of the tick)
Candidates(n) ==
    IF n \in DOMAIN last' /\ last'[n].had /\ last'[n].pre = high_water_marks[n]
    THEN last'[n].valid
    ELSE {}

\* msg starts with "!" and its first word is, in any case, !online, !help or !item
KnownCommand(msg) ==
    \E w \in valid_commands :
        /\ Len(msg) >= Len(w)
        /\ StrLower(SubSeq(msg, 1, Len(w))) = w
        /\ Len(msg) = Len(w) \/ msg[Len(w) + 1] = " "

\* msg has the format of the engine's own broadcast, "[Alias] <Name> text"
BroadcastShaped(msg) ==
    /\ msg # <<>>
    /\ msg[1] = "["
    /\ \E i \in 2..Len(msg), j \in 2..Len(msg) :
          /\ i + 2 < j
          /\ j + 1 < Len(msg)
          /\ msg[i] = "]" /\ msg[i + 1] = " " /\ msg[i + 2] = "<"
          /\ msg[j] = ">" /\ msg[j + 1] = " "

Filtered(e) ==
    \/ Contains(StrLower(e.type), StrLower(ChatType)) /\ e.source = ConsoleSender
    \/ BroadcastShaped(e.contents)
    \/ Len(e.source) = 0
    \/ Len(e.source) > MaxUserLen

\* C12: an entry of type chat with sender "Console", an entry whose content has
\* the engine's own broadcast format, and an entry whose sender has length 0 or
\* more than 32 is never forwarded, to a console or to the sink.
C12_FilterCorrectness ==
    /\ \A r \in BagToSet(sent) : ~Filtered(r.entry)
    /\ \A r \in BagToSet(sink_posts) : ~Filtered(r.entry)

\* a tick has met, past the watermark, an entry with a sender of 33 characters
C12_Witness ==
    \E n \in DOMAIN last : \E e \in last[n].acc : Len(e.source) > MaxUserLen

\* C13: the chat fanout of sync_loop never creates a command whose target is
\* the endpoint the chat message came from, in any group and any tick.
C13_FanoutExclusion ==
    \A r \in BagToSet(sent) : r.target # r.src

\* a message of B was sent to both other members of its group of three
C13_Witness ==
    /\ bridge_data = RelayGroups
    /\ {r.target : r \in {x \in BagToSet(sent) : x.src = "B"}} = {"A", "C"}

\* the send tasks a tick owes member d for a message of n: one per active group
\* that lists both, if d is another endpoint and in the registry
OwedSends(n, d) ==
    IF d # n /\ d \in instances'
    THEN Cardinality({i \in 1..Len(Groups) :
                         Groups[i].active /\ {n, d} \subseteq Servers(Groups[i])})
    ELSE 0

\* C14: for each candidate message of S that is no command and each active
\* group G listing S, the tick creates one send task for every member D # S of
\* G that is in the registry, and none for other endpoints.
C14_FanoutCompleteness ==
    [][\A n \in Endpoints : \A e \in Candidates(n) :
          ~KnownCommand(e.contents) =>
              \A d \in Endpoints :
                  SendsIn(sent', n, d, e) = SendsIn(sent, n, d, e) + OwedSends(n, d)]_vars

\* a message of B went twice to A, which two active groups list with B, and not
\* to C, which had left the registry
C14_Witness ==
    /\ bridge_data = RelayGroups
    /\ instances = {"A", "B"}
    /\ "B" \in DOMAIN last
    /\ \E e \in last["B"].fwd :
          /\ SendsIn(sent, "B", "A", e) = 2
          /\ SendsIn(sent, "B", "C", e) = 0

\* C15: a candidate chat message that starts with "!" and whose first word is,
\* in any case, !online, !help or !item is never forwarded as chat to a console
\* or to the sink, and exactly one handle_minecraft_command task is spawned for it.
C15_Interception ==
    [][\A n \in Endpoints : \A e \in Candidates(n) :
          KnownCommand(e.contents) =>
              /\ TasksIn(cmd_tasks', n, e) = TasksIn(cmd_tasks, n, e) + 1
              /\ \A d \in Endpoints : SendsIn(sent', n, d, e) = 0
              /\ PostsIn(sink_posts', e) = 0]_vars

\* a task was spawned for "!Help me"
C15_Witness ==
    \E t \in BagToSet(cmd_tasks) : t.msg = BangHelpMe[2] /\ t.msg # StrLower(t.msg)

\* C16: a candidate chat message that starts with "!" but whose first word is no
\* known command is not intercepted: it stays in the stream, no handler task is
\* spawned for it, and it is sent, as chat, to the other members of its groups.
C16_FallThrough ==
    [][\A n \in Endpoints : \A e \in Candidates(n) :
          (StartsWith(e.contents, <<"!">>) /\ ~KnownCommand(e.contents)) =>
              /\ e \in last'[n].fwd
              /\ TasksIn(cmd_tasks', n, e) = TasksIn(cmd_tasks, n, e)
              /\ \A d \in Endpoints :
                    OwedSends(n, d) > 0 =>
                        CopiesIn([target |-> d, src |-> n, entry |-> e,
                                  cmd |-> FanoutCommand(n, d, e.source, e.contents)],
                                 sent') = OwedSends(n, d)
              /\ PostsIn(sink_posts', e) =
                     Cardinality({i \in 1..Len(Groups) :
                                     /\ Groups[i].active
                                     /\ n \in Servers(Groups[i])
                                     /\ Groups[i].channel_id # NoChannel})]_vars

\* "!hello" of B was sent to A as chat
C16_Witness ==
    \E r \in BagToSet(sent) :
        r.entry.contents = BangHello[2] /\ r.src = "B" /\ r.target = "A"

(***************************************************************************)
(* Properties of the commands sent to the consoles, checked under          *)
(* SpecCommands.                                                           *)
(***************************************************************************)
\* online_data with every alias and every player name sanitized
SafeRows(online_data) ==
    [i \in DOMAIN online_data |->
        [alias |-> _sanitize_for_minecraft(online_data[i].alias),
         players |-> [j \in DOMAIN online_data[i].players |->
                         _sanitize_for_minecraft(online_data[i].players[j])]]]

\* the command of a handler's send with every external string sanitized
SafeReply(r) ==
    LET safe_user == _sanitize_for_minecraft(r.task.user)
        is_minecraft == _is_minecraft(r.task.source)
    IN  CASE r.kind = "online" ->
                 OnlineCommand(is_minecraft, safe_user, SafeRows(r.online_data))
          [] r.kind = "help" -> HelpCommand(is_minecraft, safe_user)
          [] r.kind = "check" -> ItemCheckCommand(safe_user)
          [] r.kind = "item" ->
                 ItemCommand(r.task.source, r.task.user,
                             StrTitle(StrReplace(r.item, "_", <<" ">>)))

\* C11: in every console command the engine sends, by the chat fanout or by
\* handle_minecraft_command for !online, !help and !item, each external string
\* put into the command (sender, content, alias, player names) is sanitized.
C11_SanitizerCoverage ==
    /\ \A r \in BagToSet(sent) :
           LET safe_user == _sanitize_for_minecraft(r.entry.source)
               safe_msg == _sanitize_for_minecraft(r.entry.contents)
               safe_source == _sanitize_for_minecraft(DisplayName(r.src))
           IN  r.cmd = IF _is_minecraft(r.target)
                       THEN TellrawMinecraft(safe_source, DisplayColor(r.src),
                                             safe_user, safe_msg)
                       ELSE TellrawGeneric(safe_source, safe_user, safe_msg)
    /\ \A r \in BagToSet(replies.sends) : r.cmd = SafeReply(r)

(***************************************************************************)
(* The tasks the engine spawns and the network calls they await.           *)
(***************************************************************************)
\* the variables a task leaves alone whatever it does
engine_vars == <<bridge_data, instances, high_water_marks, failure_counts, sessions,
                 log, clock, sent, sink_posts, cmd_tasks, topic_tasks, fails_left,
                 env, seed, accepted, covered, health, console_listeners, waiting,
                 handled, replies>>

\* the timeout, in seconds, the code puts on each call it awaits; NoTimeout where
\* the call is awaited as it is
NoTimeout == 0
CallTimeout ==
    [get_updates |-> 5,                    \* line 85: asyncio.wait_for
     send_console_message |-> 5,           \* line 709: asyncio.wait_for
     future |-> 4,                         \* line 343: asyncio.wait_for
     webhooks |-> NoTimeout,               \* lines 692 and 699
     webhook_send |-> NoTimeout,           \* line 658
     channel_send |-> NoTimeout,           \* lines 664, 666, 675 and 678
     channel_edit |-> NoTimeout,           \* line 266
     get_instance_status |-> NoTimeout,    \* line 172
     async_status |-> NoTimeout]           \* lines 205 and 206

\* what a task sees of a call the remote answers with "ok", with "error", or
\* not at all ("silent"): a call under wait_for raises TimeoutError, a call
\* awaited as it is does not return
Seen(call, answer) ==
    IF answer # "silent" THEN answer
    ELSE IF CallTimeout[call] # NoTimeout THEN "timeout" ELSE "hang"

ConsoleOutcomes == {Seen("send_console_message", a) : a \in env.console}
DiscordOutcomes(call) == {Seen(call, a) : a \in env.discord}

\* the console sends that are tasks of their own (lines 141 and 629)
Spawned == sent (+) relayed

\* a send task that tries again after a failure
_send_message_safe_retry(r, outcome) ==
    /\ san_pc = "off"
    /\ CopiesIn(r, ended) < CopiesIn(r, Spawned)
    /\ outcome \in ConsoleOutcomes
    /\ tried' = tried (+) SetToBag({[send |-> r, outcome |-> outcome]})
    /\ ended' = IF outcome = "ok" THEN ended (+) SetToBag({r}) ELSE ended
    /\ last' = EmptyDict
    /\ polls' = EmptyDict
    /\ UNCHANGED <<engine_vars, san_vars, loaded, loop, relayed, chats, posted, hung,
                   last_topic_update, channel_topic,
                   topic_runs, topic_calls>>

\* a send task that counts its failure as a failed poll of the target
_send_message_safe_counting(r, outcome) ==
    /\ san_pc = "off"
    /\ CopiesIn(r, ended) < CopiesIn(r, Spawned)
    /\ outcome \in ConsoleOutcomes
    /\ tried' = tried (+) SetToBag({[send |-> r, outcome |-> outcome]})
    /\ ended' = ended (+) SetToBag({r})
    /\ failure_counts' =
           IF outcome = "ok" THEN failure_counts
           ELSE [n \in DOMAIN failure_counts \cup {r.target} |->
                    IF n = r.target THEN Get(failure_counts, n, 0) + 1
                    ELSE failure_counts[n]]
    /\ last' = EmptyDict
    /\ polls' = EmptyDict
    /\ UNCHANGED <<bridge_data, instances, high_water_marks, sessions,
                   log, clock, sent, sink_posts, cmd_tasks, topic_tasks, fails_left,
                   env, seed, accepted, covered, health, console_listeners, waiting,
                   handled, replies, san_vars, loaded, loop, relayed, chats, posted, hung,
                   last_topic_update, channel_topic,
                   topic_runs, topic_calls>>

\* _send_message_safe (lines 706-714) as a task: one call of
\* send_console_message under a wait_for of 5 seconds; TimeoutError and any
\* Exception are logged, and the task ends
_send_message_safe(r, outcome) ==
    /\ san_pc = "off"
    /\ CopiesIn(r, ended) < CopiesIn(r, Spawned)
    /\ outcome \in ConsoleOutcomes
    /\ tried' = tried (+) SetToBag({[send |-> r, outcome |-> outcome]})
    /\ ended' = ended (+) SetToBag({r})
    /\ last' = EmptyDict
    /\ polls' = EmptyDict
    /\ UNCHANGED <<engine_vars, san_vars, loaded, loop, relayed, chats, posted, hung,
                   last_topic_update, channel_topic,
                   topic_runs, topic_calls>>

\* discord.utils.escape_markdown is code of discord.py: an uninterpreted function
escape_markdown(s) == [escaped |-> s]

\* lines 649-658: the post through the webhook, under the username
\* f"{user} [{source_name}]"; msg is not empty (line 540)
RichPost(r) ==
    [call |-> "webhook_send", content |-> escape_markdown(r.msg),
     user |-> r.user, source_name |-> r.source_name,
     avatar_url |-> r.avatar_url, outcome |-> "ok"]

\* lines 660-666 and 672-678: the plain post, f"{prefix} {safe_msg}" with prefix
\* f"**[{source_name}]** <{safe_user}>", safe_user the escaped user
PlainPost(r) ==
    [call |-> "channel_send", content |-> escape_markdown(r.msg),
     user |-> r.user, source_name |-> r.source_name,
     avatar_url |-> <<>>, outcome |-> "ok"]

NoCall == "none"

\* the calls of one run without the handler of line 668: the exception of the
\* first post leaves the function
WebhookRunRaising(r, wh, first, second) ==
    LET how == IF wh = "ok" THEN RichPost(r) ELSE PlainPost(r)
    IN  IF wh = "hang"
        THEN [hang |-> "webhooks", calls |-> <<>>, raised |-> FALSE]
        ELSE IF first = "hang"
        THEN [hang |-> how.call, calls |-> <<>>, raised |-> FALSE]
        ELSE [hang |-> NoCall, calls |-> <<[how EXCEPT !.outcome = first]>>,
              raised |-> first # "ok"]

\* the calls of one run of _send_discord_message_webhook (lines 639-680): wh is
\* what _get_or_create_webhook sees of Discord (a webhook on "ok", None on
\* "error", lines 682-704), first what the first post sees, second what the
\* post of the handler of line 668 sees
WebhookRun(r, wh, first, second) ==
    LET how == IF wh = "ok" THEN RichPost(r) ELSE PlainPost(r)
    IN  IF wh = "hang"
        THEN [hang |-> "webhooks", calls |-> <<>>, raised |-> FALSE]
        ELSE IF first = "hang"
        THEN [hang |-> how.call, calls |-> <<>>, raised |-> FALSE]
        ELSE IF first = "ok"
        THEN [hang |-> NoCall, calls |-> <<how>>, raised |-> FALSE]
        ELSE IF second = "hang"
        THEN [hang |-> "channel_send", calls |-> <<[how EXCEPT !.outcome = first]>>,
              raised |-> FALSE]
        ELSE [hang |-> NoCall,
              calls |-> <<[how EXCEPT !.outcome = first],
                          [PlainPost(r) EXCEPT !.outcome = second]>>,
              raised |-> FALSE]

\* the runs of the sink post r that wait for a call that never returns
HungCopies(r) ==
    CopiesIn([task |-> r, call |-> "webhooks"], hung)
    + CopiesIn([task |-> r, call |-> "webhook_send"], hung)
    + CopiesIn([task |-> r, call |-> "channel_send"], hung)

\* _send_discord_message_webhook as a task (spawned at line 634)
_send_discord_message_webhook(r, wh, first, second) ==
    LET run == WebhookRun(r, wh, first, second)
    IN  /\ san_pc = "off"
        /\ CopiesIn(r, ended) + HungCopies(r) < CopiesIn(r, sink_posts)
        /\ wh \in DiscordOutcomes("webhooks")
        /\ first \in DiscordOutcomes(IF wh = "ok" THEN "webhook_send" ELSE "channel_send")
        /\ second \in DiscordOutcomes("channel_send")
        /\ IF run.hang # NoCall
           THEN /\ hung' = hung (+) SetToBag({[task |-> r, call |-> run.hang]})
                /\ UNCHANGED <<ended, posted>>
           ELSE /\ ended' = ended (+) SetToBag({r})
                /\ posted' = posted (+)
                       SetToBag({[post |-> r, webhook |-> wh = "ok",
                                  calls |-> run.calls, raised |-> run.raised]})
                /\ UNCHANGED hung
        /\ last' = EmptyDict
        /\ polls' = EmptyDict
        /\ UNCHANGED <<engine_vars, san_vars, loaded, loop, relayed, chats, tried,
                       last_topic_update, channel_topic,
                   topic_runs, topic_calls>>

\* str(n) of a count of players
Digits == <<"0", "1", "2", "3", "4", "5", "6", "7", "8", "9">>
RECURSIVE IntStr(_)
IntStr(n) == IF n < 10 THEN <<Digits[n + 1]>> ELSE IntStr(n \div 10) \o <<Digits[(n % 10) + 1]>>

\* the order of sorted() on names: by code point, letters only
CodeOrder ==
    <<"A", "B", "C", "D", "E", "F", "G", "H", "I", "J", "K", "L", "M", "N", "O", "P", "Q",
      "R", "S", "T", "U", "V", "W", "X", "Y", "Z", "a", "b", "c", "d", "e", "f", "g", "h",
      "i", "j", "k", "l", "m", "n", "o", "p", "q", "r", "s", "t", "u", "v", "w", "x", "y",
      "z">>
Code(c) == CHOOSE i \in 1..Len(CodeOrder) : CodeOrder[i] = c

RECURSIVE StrLess(_, _)
StrLess(a, b) ==
    IF b = <<>> THEN FALSE
    ELSE IF a = <<>> THEN TRUE
    ELSE IF Head(a) = Head(b) THEN StrLess(Tail(a), Tail(b))
    ELSE Code(Head(a)) < Code(Head(b))

RECURSIVE Sorted(_)
Sorted(names) ==
    IF names = {} THEN <<>>
    ELSE LET first == CHOOSE x \in names : \A y \in names \ {x} : StrLess(x, y)
         IN  <<first>> \o Sorted(names \ {first})

RECURSIVE TotalPlayers(_)
TotalPlayers(online_data) ==
    IF online_data = <<>> THEN 0
    ELSE Len(Head(online_data).players) + TotalPlayers(Tail(online_data))

AllPlayerNames(online_data) ==
    UNION {SeqRange(online_data[i].players) : i \in 1..Len(online_data)}

\* line 261
TopicLimit == 1000

\* lines 245-262: the topic for the players online
TopicText(online_data) ==
    LET head == <<"O", "n", "l", "i", "n", "e", " ", "P", "l", "a", "y", "e", "r", "s", " ", "(">>
                \o IntStr(TotalPlayers(online_data)) \o <<")">>
        names == AllPlayerNames(online_data)
        topic == IF names = {} THEN head
                 ELSE head \o <<":", " ">> \o Join(<<",", " ">>, Sorted(names))
    IN  IF Len(topic) > TopicLimit
        THEN SubSeq(topic, 1, TopicLimit) \o <<".", ".", ".">>
        ELSE topic

\* the topic tasks of one group that wait for channel.edit in one behaviour
MaxHung == 1

\* _update_channel_topic (lines 229-270) as a task (spawned at line 637).  recent
\* is whether less than 300 seconds have passed since last_topic_update, which a
\* group without one cannot have (line 237: the default is 0)
_update_channel_topic(name, status, recent, outcome) ==
    LET group_data == GroupNamed(name)
        channel == group_data.channel_id
        topic == TopicText(_get_online_players(group_data, status))
    IN  /\ san_pc = "off"
        /\ env.topics
        /\ name \in topic_tasks
        /\ topic_tasks' = topic_tasks \ {name}
        /\ recent => name \in last_topic_update
        /\ outcome \in DiscordOutcomes("channel_edit")
        /\ outcome = "hang" =>
               CopiesIn([task |-> [group |-> name], call |-> "channel_edit"], hung) < MaxHung
        /\ IF channel = NoChannel \/ recent \/ Get(channel_topic, channel, <<>>) = topic
           THEN UNCHANGED <<hung, last_topic_update, channel_topic>>
           ELSE IF outcome = "hang"
           THEN /\ hung' = hung (+) SetToBag({[task |-> [group |-> name], call |-> "channel_edit"]})
                /\ UNCHANGED <<last_topic_update, channel_topic>>
           ELSE IF outcome = "ok"
           THEN /\ channel_topic' =
                       [c \in DOMAIN channel_topic \cup {channel} |->
                           IF c = channel THEN topic ELSE channel_topic[c]]
                /\ last_topic_update' = last_topic_update \cup {name}
                /\ UNCHANGED hung
           ELSE UNCHANGED <<hung, last_topic_update, channel_topic>>
        /\ last' = EmptyDict
        /\ polls' = EmptyDict
        /\ UNCHANGED <<bridge_data, instances, high_water_marks, failure_counts, sessions,
                       log, clock, sent, sink_posts, cmd_tasks, fails_left,
                       env, seed, accepted, covered, health, console_listeners, waiting,
                       handled, replies, san_vars, loaded, loop, relayed, chats, tried, ended,
                       posted,
                   topic_runs, topic_calls>>

\* lines 136 and 139: the command on_message sends to target_name
DiscordName == <<"D", "i", "s", "c", "o", "r", "d">>
DiscordColor == <<"b", "l", "u", "e">>
DiscordCommand(target_name, user, msg) ==
    LET safe_user == _sanitize_for_minecraft(user)
        safe_msg == _sanitize_for_minecraft(msg)
    IN  IF _is_minecraft(target_name)
        THEN TellrawMinecraft(DiscordName, DiscordColor, safe_user, safe_msg)
        ELSE TellrawGeneric(DiscordName, safe_user, safe_msg)

\* a channel no group is linked to
OtherChannel == 2

\* lines 113-121: the groups on_message can stop at
Linked(channel) ==
    {i \in 1..Len(Groups) :
        /\ Groups[i].active
        /\ Groups[i].channel_id # NoChannel
        /\ Groups[i].channel_id = channel
        /\ Groups[i].servers # <<>>}

\* on_message (lines 109-144): a message of a Discord channel goes to the
\* servers of the first active group linked to the channel; bot is history
\* (message.author.bot of the message relayed)
on_message(bot, channel, user, msg) ==
    /\ san_pc = "off"
    /\ loaded
    /\ chats < env.chat
    /\ chats' = chats + 1
    /\ IF bot \/ Groups = <<>> \/ Linked(channel) = {}
       THEN UNCHANGED relayed
       ELSE LET group_data == Groups[Min(Linked(channel))]
            IN  relayed' = relayed (+)
                    SetToBag({[target |-> t, channel |-> channel, user |-> user,
                               msg |-> msg, cmd |-> DiscordCommand(t, user, msg),
                               bot |-> bot] :
                                 t \in Servers(group_data) \cap instances})
    /\ last' = EmptyDict
    /\ polls' = EmptyDict
    /\ UNCHANGED <<engine_vars, san_vars, loaded, loop, tried, ended, posted, hung,
                   last_topic_update, channel_topic,
                   topic_runs, topic_calls>>

\* cog_unload without the cancel of line 63
cog_unload_running ==
    /\ san_pc = "off"
    /\ env.unload
    /\ loaded
    /\ loaded' = FALSE
    /\ last' = EmptyDict
    /\ polls' = EmptyDict
    /\ UNCHANGED <<engine_vars, san_vars, loop, relayed, chats, tried, ended, posted,
                   hung, last_topic_update, channel_topic,
                   topic_runs, topic_calls>>

\* cog_unload (lines 62-63), which the bot calls when it removes the cog, and
\* with it the listener on_message: sync_loop.cancel()
cog_unload ==
    /\ san_pc = "off"
    /\ env.unload
    /\ loaded
    /\ loaded' = FALSE
    /\ loop' = "cancelled"
    /\ last' = EmptyDict
    /\ polls' = EmptyDict
    /\ UNCHANGED <<engine_vars, san_vars, relayed, chats, tried, ended, posted, hung,
                   last_topic_update, channel_topic,
                   topic_runs, topic_calls>>

(***************************************************************************)
(* The !item handler on its own, with the fairness its wait gives it:      *)
(* asyncio.wait_for(fut, timeout=4.0) of line 343 raises TimeoutError      *)
(* after 4 seconds unless the future got its result, so a handler waiting  *)
(* on a future without a result takes its timeout step.                    *)
(***************************************************************************)
\* the console of A in the first scenario: the command, once for every entry
\* but the last, then the line the server answers the data get command with
ItemScript == [k \in 1..(MaxLog + 1) |-> IF k <= MaxLog THEN BangItem ELSE ItemData]

ItemScenarios ==
    { [Scenario(OneGroup, {"A"}, {BangItem, ItemData}, FALSE, FALSE)
          EXCEPT !.room = MaxLog + 1, !.script = ItemScript],
      [Scenario(OneGroup, {"B"}, {BangItem}, FALSE, FALSE)
          EXCEPT !.registries = {{"A"}}] }

ItemInit ==
    /\ \E sc \in ItemScenarios : InitScenario(sc)
    /\ InitEngine
    /\ text = <<>>
    /\ safe = <<>>
    /\ san_pc = "off"

\* the handlers a run can start: one for each entry after the seeding one
ItemIds == 1..(MaxLog + 1)

SpecItem ==
    /\ ItemInit
    /\ [][CommandNext]_vars
    /\ \A id \in ItemIds : WF_vars(item_timeout(id))

Listed(id) == \E k \in DOMAIN console_listeners : console_listeners[k].id = id

\* C24: a listener the !item handler has appended is removed in the end, by a
\* matching console line or by the timeout, and the listener of a handler that
\* has finished is not in console_listeners.
C24_ListenerRemoved ==
    /\ [](\A id \in DOMAIN waiting : waiting[id].pc = "done" => ~Listed(id))
    /\ \A id \in ItemIds : Listed(id) ~> ~Listed(id)

\* a handler has timed out after its listener was appended, and is finished
C24_Witness ==
    \E id \in DOMAIN waiting :
        /\ waiting[id].pc = "done"
        /\ waiting[id].fut = NoResult
        /\ ~Listed(id)
        /\ CopiesIn(waiting[id].task, handled) > 0

\* C25: a handler whose wait ends without a matching console line finishes with
\* no console send and no sink post added; every item broadcast and every item
\* post belongs to a handler whose future got a result.
C25_TimeoutSilent ==
    [][/\ \A id \in DOMAIN waiting :
              (/\ waiting[id].pc = "wait"
               /\ waiting[id].fut = NoResult
               /\ waiting'[id].pc = "done")
                  => /\ waiting'[id].fut = NoResult
                     /\ UNCHANGED <<replies, sent, sink_posts>>
       /\ \A r \in BagToSet(replies'.sends) \cup BagToSet(replies'.posts) :
              ("kind" \in DOMAIN r => r.kind = "item") =>
                  \E id \in DOMAIN waiting' :
                      /\ waiting'[id].task = r.task
                      /\ waiting'[id].fut # NoResult
                      /\ waiting'[id].pc = "done"]_vars

\* a handler has timed out; the data get commands are the only sends there are
C25_Witness ==
    /\ \E id \in DOMAIN waiting : waiting[id].pc = "done" /\ waiting[id].fut = NoResult
    /\ replies.posts = EmptyBag
    /\ \A r \in BagToSet(replies.sends) : r.kind = "check"
    /\ replies.sends # EmptyBag

(***************************************************************************)
(* The tasks in their runs: SpecTasks.                                     *)
(***************************************************************************)
\* the Discord messages on_message sees in one behaviour
MaxChat == 1

\* the runs of the tasks: console sends to two siblings, of which some fail; a
\* sink whose calls fail; a sink that does not answer; the cog removed while
\* tasks are pending; a Discord message for the servers; a command; the topic
\* of the sink channel for the players the servers report
TaskScenarios ==
    { [Scenario(TrioGroup, {"A"}, {AliceHello}, FALSE, FALSE)
          EXCEPT !.console = {"ok", "error"}],
      [Scenario(OneGroup, {"A"}, {AliceHello}, FALSE, FALSE)
          EXCEPT !.discord = {"ok", "error"}],
      [Scenario(OneGroup, {"A"}, {AliceHello}, FALSE, FALSE)
          EXCEPT !.discord = {"ok", "silent"}],
      [Scenario(OneGroup, {"A"}, {AliceHello}, FALSE, FALSE)
          EXCEPT !.console = {"ok", "silent"}, !.unload = TRUE],
      [Scenario(OneGroup, {}, {}, FALSE, FALSE)
          EXCEPT !.chat = MaxChat, !.console = {"ok", "silent"}, !.unload = TRUE],
      Scenario(OneGroup, {"A"}, {AliceOnline}, FALSE, FALSE),
      [Scenario(OneGroup, {}, {}, FALSE, FALSE)
          EXCEPT !.players = PlayerLists, !.discord = {"ok", "error", "silent"},
                 !.topics = TRUE] }

\* what the servers can answer a task that asks for their players
TaskStatuses ==
    {status \in StatusChoices :
        \A n \in Endpoints : status[n].listed => status[n].players \in env.players}

TaskLines == UNION {sc.lines : sc \in TaskScenarios}

TaskInit ==
    /\ \E sc \in TaskScenarios : InitScenario(sc)
    /\ InitEngine
    /\ text = <<>>
    /\ safe = <<>>
    /\ san_pc = "off"

TaskNext ==
    \/ sync_loop
    \/ \E name \in Endpoints, line \in TaskLines, ts \in {clock, clock + 1} :
           LogLine(name, line, ts, ts)
    \/ \E r \in BagToSet(Spawned), outcome \in {"ok", "error", "timeout"} :
           _send_message_safe(r, outcome)
    \/ \E r \in BagToSet(sink_posts), wh, first, second \in {"ok", "error", "hang"} :
           _send_discord_message_webhook(r, wh, first, second)
    \/ \E name \in topic_tasks, status \in TaskStatuses, recent \in BOOLEAN,
          outcome \in {"ok", "error", "hang"} :
           _update_channel_topic(name, status, recent, outcome)
    \/ \E bot \in BOOLEAN, channel \in {Channel, OtherChannel}, user \in {Bob, BadUser} :
           on_message(bot, channel, user, Hello)
    \/ \E task \in BagToSet(cmd_tasks), status \in TaskStatuses :
           handle_minecraft_command(task, status)
    \/ cog_unload

SpecTasks == TaskInit /\ [][TaskNext]_vars

\* the attempts of the console send s in the bag of attempts
Attempts(bag, s) ==
    CopiesIn([send |-> s, outcome |-> "ok"], bag)
    + CopiesIn([send |-> s, outcome |-> "error"], bag)
    + CopiesIn([send |-> s, outcome |-> "timeout"], bag)

\* a console send task or a sink post is spawned and has not ended
PendingSend(r) == CopiesIn(r, ended) < CopiesIn(r, Spawned)
PendingPost(r) == CopiesIn(r, ended) + HungCopies(r) < CopiesIn(r, sink_posts)

\* C21: the tick does not wait for the tasks it has spawned: while console sends
\* or sink posts of earlier ticks are pending, the next tick can start its
\* polls whenever the loop is running.
C21_TickNeverWaits ==
    (/\ loop = "running"
     /\ \/ \E r \in BagToSet(Spawned) : PendingSend(r)
        \/ \E r \in BagToSet(sink_posts) : PendingPost(r))
        => ENABLED sync_loop

\* a tick that spawned nothing has run while a send and a post of an earlier
\* tick are pending
C21_Witness ==
    /\ polls # EmptyDict
    /\ \A n \in DOMAIN last : last[n].fwd = {}
    /\ \E r \in BagToSet(sent) : PendingSend(r)
    /\ \E r \in BagToSet(sink_posts) : PendingPost(r)

\* C22: a console send is attempted once for each task spawned for it, whatever
\* the outcome; the step in which a send fails or times out ends its task and
\* changes nothing else: the loop keeps running, the sends spawned stay spawned,
\* and the other sends stay as they were, pending if they were pending.
C22_DispatchIsolation ==
    [][/\ \A s \in BagToSet(Spawned') : Attempts(tried', s) <= CopiesIn(s, Spawned')
       /\ \A s \in BagToSet(Spawned) :
              (/\ Attempts(tried', s) > Attempts(tried, s)
               /\ CopiesIn([send |-> s, outcome |-> "ok"], tried')
                      = CopiesIn([send |-> s, outcome |-> "ok"], tried))
                  => /\ CopiesIn(s, ended') = CopiesIn(s, ended) + 1
                     /\ UNCHANGED <<loop, sent, relayed, sink_posts, hung,
                                    high_water_marks, failure_counts>>
                     /\ \A o \in BagToSet(Spawned) \ {s} :
                            /\ CopiesIn(o, ended') = CopiesIn(o, ended)
                            /\ Attempts(tried', o) = Attempts(tried, o)]_vars

\* the send of a message to B has failed and the send of the same message to
\* its sibling C has succeeded
C22_Witness ==
    \E s \in BagToSet(sent), o \in BagToSet(sent) :
        /\ s.entry = o.entry
        /\ s.src = o.src
        /\ s.target = "B"
        /\ o.target = "C"
        /\ CopiesIn([send |-> s, outcome |-> "error"], tried) > 0
        /\ CopiesIn([send |-> o, outcome |-> "ok"], tried) > 0

\* C23: a sink post that got no webhook, or whose post through the webhook
\* raised, has attempted a plain post to the channel with the same message, and
\* no run of _send_discord_message_webhook has let an exception out.
C23_SinkFallback ==
    \A p \in BagToSet(posted) :
        /\ ~p.raised
        /\ (~p.webhook \/ p.calls[1].outcome # "ok") =>
               \E k \in 1..Len(p.calls) :
                   /\ p.calls[k].call = "channel_send"
                   /\ p.calls[k].content = escape_markdown(p.post.msg)
                   /\ p.calls[k].user = p.post.user
                   /\ p.calls[k].source_name = p.post.source_name

\* the post through the webhook has raised and the plain post has succeeded
C23_Witness ==
    \E p \in BagToSet(posted) :
        /\ p.webhook
        /\ Len(p.calls) = 2
        /\ p.calls[1].call = "webhook_send"
        /\ p.calls[1].outcome = "error"
        /\ p.calls[2].call = "channel_send"
        /\ p.calls[2].outcome = "ok"

\* C26: no task waits for ever: every call a task awaits returns or raises
\* within a timeout of the code, so that no task is left waiting for a remote
\* that does not answer.
C26_NoTaskBlocksForever == hung = EmptyBag

\* C27: once cog_unload has run no tick runs and no poll is issued; the step of
\* cog_unload leaves the spawned sends and posts as they are, and a task ends
\* only by its own run, with its attempt or its calls on record.
C27_CooperativeShutdown ==
    [][/\ ~loaded => polls' = EmptyDict /\ UNCHANGED <<high_water_marks, covered>>
       /\ (loaded /\ ~loaded') =>
              /\ loop' = "cancelled"
              /\ UNCHANGED <<sent, relayed, sink_posts, tried, ended, posted, hung>>
       /\ \A r \in BagToSet(Spawned) :
              CopiesIn(r, ended') > CopiesIn(r, ended) =>
                  Attempts(tried', r) > Attempts(tried, r)
       /\ \A r \in BagToSet(sink_posts) :
              CopiesIn(r, ended') > CopiesIn(r, ended) =>
                  \E p \in BagToSet(posted') :
                      p.post = r /\ CopiesIn(p, posted') > CopiesIn(p, posted)]_vars

\* after cog_unload a sink post spawned before it is pending, and a send has run
C27_Witness ==
    /\ ~loaded
    /\ loop = "cancelled"
    /\ \E r \in BagToSet(sink_posts) : PendingPost(r)
    /\ \E r \in BagToSet(sent) : ~PendingSend(r)

\* C29: a step that is no tick, that is a step of a send task, a sink post, a
\* command handler, the topic updater or on_message, leaves high_water_marks
\* and failure_counts unchanged.
C29_TickOwnsEndpointState ==
    [][polls' = EmptyDict => UNCHANGED <<high_water_marks, failure_counts>>]_vars

\* a send to B has failed, a sink post has run, and B has no failure counted
C29_Witness ==
    /\ posted # EmptyBag
    /\ \E t \in BagToSet(tried) :
           /\ t.outcome # "ok"
           /\ t.send.target = "B"
           /\ Get(failure_counts, "B", 0) = 0
           /\ "A" \in DOMAIN high_water_marks

(***************************************************************************)
(* Properties of the watermark and of a failed poll, checked under Spec.   *)
(***************************************************************************)
\* C28: every hash of the watermark of an endpoint is the hash of an entry a
\* poll has returned whose timestamp is the timestamp of the watermark: a later
\* entry replaces the set, and no entry of another instant extends it.
C28_HashSet ==
    \A n \in DOMAIN high_water_marks : \A h \in high_water_marks[n].hashes :
        \E k \in 1..covered[n] :
            /\ Parseable(log[n][k])
            /\ log[n][k].timestamp = high_water_marks[n].ts
            /\ EntryHash(log[n][k]) = h

\* a second entry of the instant of the watermark has extended the set
C28_Witness ==
    \E n \in DOMAIN high_water_marks : Cardinality(high_water_marks[n].hashes) = 2

\* C30: when the poll of endpoint E fails in a tick, the watermark of E stays as
\* it is and the tick produces no send, sink post or handler task from E, while
\* the candidate messages of the endpoints polled with success are dispatched
\* to the members of their groups as in any tick.
C30_FailedPollSkipped ==
    [][\A n \in Endpoints :
          (n \in DOMAIN polls' /\ ~polls'[n]) =>
              /\ n \in DOMAIN high_water_marks' <=> n \in DOMAIN high_water_marks
              /\ Get(high_water_marks', n, NoMark) = Get(high_water_marks, n, NoMark)
              /\ \A r \in BagToSet(sent') :
                     r.src = n => CopiesIn(r, sent') = CopiesIn(r, sent)
              /\ \A r \in BagToSet(sink_posts') :
                     r.source_name = DisplayName(n) =>
                         CopiesIn(r, sink_posts') = CopiesIn(r, sink_posts)
              /\ \A t \in BagToSet(cmd_tasks') :
                     t.source = n => CopiesIn(t, cmd_tasks') = CopiesIn(t, cmd_tasks)
              /\ \A m \in DOMAIN polls' : \A e \in Candidates(m) :
                     ~KnownCommand(e.contents) =>
                         \A d \in Endpoints :
                             SendsIn(sent', m, d, e) =
                                 SendsIn(sent, m, d, e) + OwedSends(m, d)]_vars

\* the poll of B failed in the tick that sent a message of A to B
C30_Witness ==
    /\ "B" \in DOMAIN polls
    /\ ~polls["B"]
    /\ "A" \in DOMAIN last
    /\ \E e \in last["A"].fwd : SendsIn(sent, "A", "B", e) = 1

(***************************************************************************)
(* Properties of malformed entries, checked under Spec.                    *)
(***************************************************************************)
\* the hashes of the entries of a batch
HashesOf(batch) == {EntryHash(e) : e \in batch}

\* after a tick that polled n with success: no entry without a timestamp that
\* parses was accepted
MalformedDropped(n) == last[n].acc \subseteq ParseableOf(last[n].batch)

\* the watermark n had before the tick took nothing from such an entry: its
\* timestamp and hashes are the old ones or those of parseable entries, and a
\* batch without a parseable entry leaves it as it was
MarkFromParseable(n) ==
    last[n].had =>
        LET P == ParseableOf(last[n].batch)
            wm == high_water_marks[n]
        IN  /\ wm.ts \in {last[n].pre.ts} \cup {e.timestamp : e \in P}
            /\ wm.hashes \subseteq last[n].pre.hashes \cup HashesOf(P)
            /\ P = {} => wm = last[n].pre

\* the parseable entries later than the watermark were accepted all the same,
\* but for one that repeats the second and the hash of another accepted with it
\* (lines 519-523)
OthersProcessed(n) ==
    last[n].had =>
        \A e \in ParseableOf(last[n].batch) :
            e.timestamp > last[n].pre.ts =>
                \/ e \in last[n].acc
                \/ \E d \in last[n].acc : /\ d # e
                                           /\ d.timestamp = e.timestamp
                                           /\ EntryHash(d) = EntryHash(e)

ListedCopies(id) ==
    Cardinality({k \in DOMAIN console_listeners : console_listeners[k].id = id})

\* C32: under every interleaving of the !item handlers and the ticks, the future
\* of a listener gets a result at most once, in a tick, from an entry of its own
\* endpoint accepted in that tick, while the listener is in console_listeners;
\* a listener is in the list once, is put there by its handler only, is not put
\* back once removed, and the handler whose future has a result finishes with
\* its listener already removed by the tick.
C32_RegistryDiscipline ==
    [][\A id \in DOMAIN waiting :
          /\ waiting[id].fut # NoResult => waiting'[id].fut = waiting[id].fut
          /\ (waiting[id].fut = NoResult /\ waiting'[id].fut # NoResult) =>
                 /\ polls' # EmptyDict
                 /\ Listed(id)
                 /\ ~Listed(id)'
                 /\ waiting[id].task.source \in DOMAIN last'
                 /\ \E e \in last'[waiting[id].task.source].acc :
                        ItemMatch(waiting[id].task.user, e.contents) = waiting'[id].fut
          /\ ListedCopies(id)' <= 1
          /\ (~Listed(id) /\ Listed(id)') =>
                 (waiting[id].pc = "check" /\ waiting'[id].pc = "wait")
          /\ (waiting[id].pc = "wait" /\ waiting'[id].pc = "done"
                 /\ waiting[id].fut # NoResult) =>
                 (~Listed(id) /\ ~Listed(id)')]_vars

\* a tick has resolved the future of a listener and removed it, and the handler
\* has finished with its broadcast
C32_Witness ==
    \E id \in DOMAIN waiting :
        /\ waiting[id].fut # NoResult
        /\ waiting[id].pc = "done"
        /\ ~Listed(id)
        /\ \E r \in BagToSet(replies.sends) : r.kind = "item" /\ r.task = waiting[id].task

(***************************************************************************)
(* Properties of the filter chain as a whole, checked under SpecRelay.     *)
(***************************************************************************)
\* the noise signatures: performance-monitor output and whisper markers
NoiseSignature(msg) ==
    \/ /\ Contains(StrLower(msg), <<"t", "p", "s">>)
       /\ Contains(StrLower(msg), <<"m", "s", "/", "t", "i", "c", "k">>)
    \/ StartsWith(StrLower(msg), <<"p", "r", "i", "v", "a", "t", "e", "_", "f", "o", "r", "_">>)

\* the entries the filter chain is to let through: chat-type, sender and content
\* not empty, sender of 1 to 32 characters and no system account, content no
\* noise signature and not of the engine's broadcast format
RealChat(e) ==
    /\ Contains(StrLower(e.type), StrLower(ChatType))
    /\ e.contents # <<>>
    /\ Len(e.source) >= MinUserLen
    /\ Len(e.source) <= MaxUserLen
    /\ StrLower(e.source) \notin system_users
    /\ ~NoiseSignature(e.contents)
    /\ ~BroadcastShaped(e.contents)

\* C33: an entry accepted past the watermark is dropped by the filter chain only
\* if it fails one of the listed predicates: every accepted chat-type entry of a
\* non-system sender of 1 to 32 characters whose content is no noise signature
\* and has not the broadcast format "[tag] <sender> text" is a candidate chat
\* message of its tick.
C33_NoFalseRejects ==
    \A n \in DOMAIN last :
        last[n].had => \A e \in last[n].acc : RealChat(e) => e \in last[n].valid

(***************************************************************************)
(* The configuration UI links and unlinks servers while the loop runs      *)
(* (lines 942-974): SpecLinks.                                             *)
(***************************************************************************)
\* bridge_data with the servers of the group group_name replaced
WithServers(group_name, servers) ==
    [bridge_data EXCEPT !.groups =
        [i \in DOMAIN Groups |->
            IF Groups[i].name = group_name
            THEN [Groups[i] EXCEPT !.servers = servers]
            ELSE Groups[i]]]

\* UnlinkInstanceSelect.callback (lines 966-974): the server leaves the list of
\* the group; nothing else of the cog is touched
UnlinkInstanceSelect(group_name, server) ==
    /\ san_pc = "off"
    /\ \E i \in DOMAIN Groups : Groups[i].name = group_name
    /\ bridge_data' =
           IF server \in Servers(GroupNamed(group_name))
           THEN WithServers(group_name,
                            SelectSeq(GroupNamed(group_name).servers, LAMBDA x : x # server))
           ELSE bridge_data
    /\ last' = EmptyDict
    /\ polls' = EmptyDict
    /\ UNCHANGED <<instances, high_water_marks, failure_counts, sessions, log, clock,
                   sent, sink_posts, cmd_tasks, topic_tasks, fails_left,
                   env, seed, accepted, covered, health,
                   console_listeners, waiting, handled, replies, san_vars, task_vars>>

\* LinkInstanceSelect.callback (lines 947-954): a server of the registry (the
\* options of lines 843-848) joins the list of the group, at its end
LinkInstanceSelect(group_name, server) ==
    /\ san_pc = "off"
    /\ \E i \in DOMAIN Groups : Groups[i].name = group_name
    /\ server \in instances
    /\ bridge_data' =
           IF server \notin Servers(GroupNamed(group_name))
           THEN WithServers(group_name, Append(GroupNamed(group_name).servers, server))
           ELSE bridge_data
    /\ last' = EmptyDict
    /\ polls' = EmptyDict
    /\ UNCHANGED <<instances, high_water_marks, failure_counts, sessions, log, clock,
                   sent, sink_posts, cmd_tasks, topic_tasks, fails_left,
                   env, seed, accepted, covered, health,
                   console_listeners, waiting, handled, replies, san_vars, task_vars>>

LinkScenarios == { Scenario(OneGroup, {"A"}, {AliceHello}, FALSE, FALSE) }

LinkInit ==
    /\ \E sc \in LinkScenarios : InitScenario(sc)
    /\ InitEngine
    /\ text = <<>>
    /\ safe = <<>>
    /\ san_pc = "off"

LinkNext ==
    \/ sync_loop
    \/ \E name \in Endpoints, ts \in {clock, clock + 1} : LogLine(name, AliceHello, ts, ts)
    \/ UnlinkInstanceSelect("g1", "A")
    \/ LinkInstanceSelect("g1", "A")

SpecLinks == LinkInit /\ [][LinkNext]_vars

\* some group, active or not, lists the endpoint
LinkedAnywhere(n) == \E i \in DOMAIN Groups : n \in Servers(Groups[i])

\* C34: the watermark of an endpoint that was removed is destroyed: when an
\* endpoint that no group lists is linked again it has no watermark, so that its
\* next batch is a first-ever batch.
C34_WatermarkLifetime ==
    [][\A n \in Endpoints :
          (~LinkedAnywhere(n) /\ LinkedAnywhere(n)') =>
              n \notin DOMAIN high_water_marks']_vars

(***************************************************************************)
(* Properties of the fanout over groups that share members, checked under  *)
(* SpecRelay.                                                              *)
(***************************************************************************)
\* C35: one candidate chat message of S that is no command results in exactly
\* one command sent to each other endpoint D of the registry that shares an
\* active group with S, also when S and D share two or more active groups.
C35_NoDuplicateDelivery ==
    [][\A n \in Endpoints : \A e \in Candidates(n) :
          ~KnownCommand(e.contents) =>
              \A d \in Endpoints :
                  OwedSends(n, d) > 0 =>
                      SendsIn(sent', n, d, e) = SendsIn(sent, n, d, e) + 1]_vars

(***************************************************************************)
(* A server of a disabled group that an active group lists as well: the    *)
(* runs of the !item handler with the disabled group first (SpecDisabled). *)
(***************************************************************************)
DisabledScenarios ==
    { [Scenario(DisabledGroup, {"A"}, {BangItem, ItemData}, FALSE, FALSE)
          EXCEPT !.room = MaxLog + 1, !.script = ItemScript] }

DisabledInit ==
    /\ \E sc \in DisabledScenarios : InitScenario(sc)
    /\ InitEngine
    /\ text = <<>>
    /\ safe = <<>>
    /\ san_pc = "off"

SpecDisabled == DisabledInit /\ [][CommandNext]_vars

\* the active groups that list all the endpoints of S
ActiveWith(S) == {i \in DOMAIN Groups : Groups[i].active /\ S \subseteq Servers(Groups[i])}

\* the sink channels of the active groups that list all the endpoints of S
ActiveSinks(S) == {Groups[i].channel_id : i \in ActiveWith(S)} \ {NoChannel}

\* C36: no console command and no sink post is issued on behalf of a disabled
\* group: every send of the fanout, of a command handler and of on_message goes
\* to a member of an active group, from a member of the same group where it has
\* a source, every sink post goes to the sink of an active group, and the
\* servers !online has looked up are those of an active group of the source.
C36_DisabledGroupSilent ==
    /\ \A r \in BagToSet(sent) : ActiveWith({r.src, r.target}) # {}
    /\ \A r \in BagToSet(sink_posts) : r.channel \in ActiveSinks({})
    /\ \A r \in BagToSet(relayed) : r.channel \in ActiveSinks({r.target})
    /\ \A r \in BagToSet(replies.sends) :
           /\ ActiveWith({r.task.source, r.target}) # {}
           /\ r.kind = "online" =>
                  \E i \in ActiveWith({r.task.source}) :
                      r.online_data = _get_online_players(Groups[i],
                          [n \in Endpoints |->
                              IF \E k \in DOMAIN r.online_data :
                                     r.online_data[k].alias = DisplayName(n)
                              THEN [listed |-> TRUE,
                                    players |-> r.online_data[
                                        CHOOSE k \in DOMAIN r.online_data :
                                            r.online_data[k].alias = DisplayName(n)].players]
                              ELSE Unlisted])
    /\ \A r \in BagToSet(replies.posts) : r.channel \in ActiveSinks({r.task.source})

(***************************************************************************)
(* The server answers the query of the !item handler: SpecAnswers.  The    *)
(* handler awaits its send (line 330) before it appends its listener (line *)
(* 339); the server can log its answer, and a tick can run, in between.    *)
(***************************************************************************)
\* the line a Minecraft server logs for "data get entity <user> SelectedItem.id"
AnswerText(user) ==
    user \o ItemPrefixTail
    \o <<"m", "i", "n", "e", "c", "r", "a", "f", "t", ":", "i", "r", "o", "n", "_", "o", "r",
         "e", "\"">>

\* the answers in the log of source for user, and the queries sent for them
AnswersLogged(source, user) ==
    Cardinality({k \in DOMAIN log[source] : log[source][k].contents = AnswerText(user)})
QueriesSent(source, user) ==
    Cardinality({j \in DOMAIN waiting :
                    waiting[j].task.source = source /\ waiting[j].task.user = user})

\* environment: the server of handler id has received the query of line 329,
\* whose send the handler may still await, and logs its answer
ConsoleAnswer(id, ts) ==
    /\ san_pc = "off"
    /\ id \in DOMAIN waiting
    /\ LET source == waiting[id].task.source
           user == waiting[id].task.user
       IN  /\ AnswersLogged(source, user) < QueriesSent(source, user)
           /\ log' = [log EXCEPT ![source] =
                         Append(@, Entry(ts, <<"S", "e", "r", "v", "e", "r">>,
                                         AnswerText(user), ConsoleType))]
    /\ ts \in {clock, clock + 1}
    /\ ts # NoTs
    /\ LogSize < env.room
    /\ clock' = ts
    /\ last' = EmptyDict
    /\ polls' = EmptyDict
    /\ UNCHANGED <<bridge_data, instances, high_water_marks, failure_counts, sessions,
                   sent, sink_posts, cmd_tasks, topic_tasks, fails_left,
                   env, seed, accepted, covered, health,
                   console_listeners, waiting, handled, replies, san_vars, task_vars>>

AnswerScenarios ==
    { [Scenario(OneGroup, {"A"}, {BangItem}, FALSE, FALSE) EXCEPT !.room = MaxLog + 1] }

AnswerInit ==
    /\ \E sc \in AnswerScenarios : InitScenario(sc)
    /\ InitEngine
    /\ text = <<>>
    /\ safe = <<>>
    /\ san_pc = "off"

AnswerNext ==
    \/ sync_loop
    \/ \E name \in Endpoints, ts \in {clock, clock + 1} : LogLine(name, BangItem, ts, ts)
    \/ \E task \in BagToSet(cmd_tasks) :
           handle_minecraft_command(task, [n \in Endpoints |-> Unlisted])
    \/ \E id \in DOMAIN waiting : item_listen(id)
    \/ \E id \in DOMAIN waiting : item_reply(id)
    \/ \E id \in DOMAIN waiting : item_timeout(id)
    \/ \E id \in DOMAIN waiting, ts \in {clock, clock + 1} : ConsoleAnswer(id, ts)

SpecAnswers == AnswerInit /\ [][AnswerNext]_vars

\* C37: no tick accepts the console line that answers the query of an !item
\* handler while the handler has sent the query and has not yet put its
\* listener into console_listeners.
C37_NoLostResponse ==
    [][\A id \in DOMAIN waiting :
          LET source == waiting[id].task.source
          IN  (/\ waiting[id].pc = "check"
               /\ source \in DOMAIN polls'
               /\ polls'[source])
                  => \A e \in last'[source].acc :
                         ItemMatch(waiting[id].task.user, e.contents) = NoResult]_vars

(***************************************************************************)
(* What the engine emits comes back: SpecEcho.  A server that shows a      *)
(* tellraw to its players can log the text shown as a chat line of its     *)
(* console, and Discord delivers the posts of the bot and of its webhook   *)
(* to on_message as messages of a bot.                                     *)
(***************************************************************************)
\* the text a server shows for a string the sanitizer has escaped: the JSON
\* escapes undone
Shown(s) == Unescape(_sanitize_for_minecraft(s))

\* the text of the tellraw of lines 625-627, of lines 136-139 and of line 362
ShownFanout(r) ==
    <<"[">> \o Shown(DisplayName(r.src)) \o <<"]", " ", "<">> \o Shown(r.entry.source)
    \o <<">", " ">> \o Shown(r.entry.contents)
ShownRelay(r) ==
    <<"[">> \o DiscordName \o <<"]", " ", "<">> \o Shown(r.user) \o <<">", " ">> \o Shown(r.msg)
ShownItem(r) ==
    <<"[">> \o Shown(DisplayName(r.task.source)) \o <<"]", " ", "<">> \o Shown(r.task.user)
    \o <<">", " ", "[">> \o Shown(StrTitle(StrReplace(r.item, "_", <<" ">>))) \o <<"]">>

\* the first line of the system messages of lines 285, 300, 315 and 318
ShownOnline ==
    <<"[", "S", "y", "s", "t", "e", "m", "]", " ", "O", "n", "l", "i", "n", "e", " ", "P", "l",
      "a", "y", "e", "r", "s", ":">>
ShownHelp ==
    <<"[", "S", "y", "s", "t", "e", "m", "]", " ", "A", "v", "a", "i", "l", "a", "b", "l", "e",
      " ", "C", "o", "m", "m", "a", "n", "d", "s", ":">>

\* the messages the engine has emitted to consoles: where they went, the player
\* they name, and the text shown there
Emitted ==
    {[target |-> r.target, user |-> r.entry.source, text |-> ShownFanout(r)] :
        r \in BagToSet(sent)}
    \cup {[target |-> r.target, user |-> r.user, text |-> ShownRelay(r)] :
             r \in BagToSet(relayed)}
    \cup {[target |-> r.target, user |-> r.task.user,
           text |-> IF r.kind = "item" THEN ShownItem(r)
                    ELSE IF r.kind = "online" THEN ShownOnline ELSE ShownHelp] :
             r \in {x \in BagToSet(replies.sends) : x.kind \in {"item", "online", "help"}}}

\* environment: the console of the target logs, once, the text of a message the
\* engine has sent it, as a chat line of the player the message names
ConsoleEcho(m, ts) ==
    /\ san_pc = "off"
    /\ m \in Emitted
    /\ \A k \in DOMAIN log[m.target] : log[m.target][k].contents # m.text
    /\ ts \in {clock, clock + 1}
    /\ ts # NoTs
    /\ LogSize < env.room
    /\ log' = [log EXCEPT ![m.target] = Append(@, Entry(ts, m.user, m.text, ChatType))]
    /\ clock' = ts
    /\ last' = EmptyDict
    /\ polls' = EmptyDict
    /\ UNCHANGED <<bridge_data, instances, high_water_marks, failure_counts, sessions,
                   sent, sink_posts, cmd_tasks, topic_tasks, fails_left,
                   env, seed, accepted, covered, health,
                   console_listeners, waiting, handled, replies, san_vars, task_vars>>

\* line 653: the name the webhook posts under
WebhookName(p) == p.user \o <<" ", "[">> \o p.source_name \o <<"]">>

\* a message of A for B, whose console has logged one line of its own before,
\* and its echoes; a message from Discord; !item and the item shared; !online
\* and its answer
EchoScenarios ==
    { [Scenario(OneGroup, {"A", "B"}, {AliceHello}, FALSE, FALSE)
          EXCEPT !.room = MaxLog + 2],
      [Scenario(OneGroup, {"A"}, {AliceHello}, FALSE, FALSE)
          EXCEPT !.chat = MaxChat],
      [Scenario(OneGroup, {"A"}, {BangItem, ItemData}, FALSE, FALSE)
          EXCEPT !.room = MaxLog + 2, !.script = ItemScript],
      [Scenario(OneGroup, {"A"}, {AliceOnline}, FALSE, FALSE)
          EXCEPT !.room = MaxLog + 1] }

EchoLines == UNION {sc.lines : sc \in EchoScenarios}

EchoInit ==
    /\ \E sc \in EchoScenarios : InitScenario(sc)
    /\ InitEngine
    /\ text = <<>>
    /\ safe = <<>>
    /\ san_pc = "off"

EchoNext ==
    \/ sync_loop
    \/ \E name \in Endpoints, line \in EchoLines :
           /\ name = "B" => log[name] = <<>>
           /\ LogLine(name, line, clock + 1, clock + 1)
    \/ \E m \in Emitted, ts \in {clock, clock + 1} : ConsoleEcho(m, ts)
    \/ on_message(FALSE, Channel, Bob, Hello)
    \/ \E p \in BagToSet(sink_posts) : on_message(TRUE, p.channel, WebhookName(p), p.msg)
    \/ \E task \in BagToSet(cmd_tasks) :
           handle_minecraft_command(task, [n \in Endpoints |-> Unlisted])
    \/ \E id \in DOMAIN waiting : item_listen(id)
    \/ \E id \in DOMAIN waiting : item_reply(id)
    \/ \E id \in DOMAIN waiting : item_timeout(id)

SpecEcho == EchoInit /\ [][EchoNext]_vars

\* the texts of the messages emitted so far
EchoTexts == {m.text : m \in Emitted}

\* C38: no message the engine has emitted is relayed again when it comes back:
\* no console send, sink post or command task is ever spawned for a console
\* entry whose content is the text of a chat fanout, a Discord relay, an item
\* share or a system message, and no message of a bot is relayed to the servers.
C38_EchoLoopFree ==
    /\ \A r \in BagToSet(sent) : r.entry.contents \notin EchoTexts
    /\ \A r \in BagToSet(sink_posts) : r.entry.contents \notin EchoTexts
    /\ \A t \in BagToSet(cmd_tasks) : t.entry.contents \notin EchoTexts
    /\ \A r \in BagToSet(relayed) : ~r.bot

\* a tick has met, past the watermark of the destination, the echo of a message
\* of the fanout, and has spawned nothing for it
C38_Witness ==
    \E r \in BagToSet(sent) :
        /\ \E e \in BagToSet(accepted[r.target]) : e.contents = ShownFanout(r)
        /\ r.target \in DOMAIN last
        /\ \E e \in last[r.target].acc : e.contents = ShownFanout(r)
        /\ last[r.target].valid = {}

(***************************************************************************)
(* The registry across fetches that fail: SpecRegistry.                    *)
(***************************************************************************)
\* the instance of the AMP controller itself, which the panel lists too
Controller == "ADS"

\* utils.fetch_valid_instances: the instances the panel lists without the
\* controller, and nothing when the call raises (its except returns [])
fetch_valid_instances(outcome, listing) ==
    IF outcome = "error" THEN {} ELSE listing \ {Controller}

\* a call of _refresh_instances (lines 65-79) with the answer of the panel and
\* the history of the call
refresh_call(outcome, listing) ==
    LET fetched == fetch_valid_instances(outcome, listing)
    IN  /\ san_pc = "off"
        /\ instances' = Refreshed(fetched)
        /\ env' = [env EXCEPT !.fetch = [outcome |-> outcome, fetched |-> fetched,
                                         before |-> instances,
                                         after |-> Refreshed(fetched)]]
        /\ last' = EmptyDict
        /\ polls' = EmptyDict
        /\ UNCHANGED <<bridge_data, high_water_marks, failure_counts, sessions, log, clock,
                       sent, sink_posts, cmd_tasks, topic_tasks, fails_left,
                       seed, accepted, covered, health,
                       console_listeners, waiting, handled, replies, san_vars, task_vars>>

RegistryScenarios ==
    { [Scenario(TwoGroups, {"A"}, {AliceHello}, FALSE, FALSE)
          EXCEPT !.registries = {{"A"}, {"A", "B"}}],
      [Scenario(OneGroup, {"B"}, {AliceHello}, FALSE, FALSE)
          EXCEPT !.registries = {{"B"}}, !.room = 1] }

\* what the panel can list: nothing, some servers, and the controller with them
Listings ==
    {l \cup c : l \in env.registries \cup {{}}, c \in {{}, {Controller}}}

RegistryInit ==
    /\ \E sc \in RegistryScenarios : InitScenario(sc)
    /\ InitEngine
    /\ text = <<>>
    /\ safe = <<>>
    /\ san_pc = "off"

RegistryNext ==
    \/ sync_loop
    \/ \E name \in Endpoints : LogLine(name, AliceHello, clock + 1, clock + 1)
    \/ \E outcome \in {"ok", "error"}, listing \in Listings : refresh_call(outcome, listing)

SpecRegistry == RegistryInit /\ [][RegistryNext]_vars

\* C39: a call of _refresh_instances whose fetch gave nothing, an empty list
\* or an error, leaves the registry with the contents it had; the registry is
\* replaced only by a fetch that gave servers, and then by exactly those.
C39_RegistrySurvives ==
    /\ env.fetch.fetched = {} => env.fetch.after = env.fetch.before
    /\ env.fetch.outcome = "error" => env.fetch.fetched = {}
    /\ env.fetch.after # env.fetch.before =>
           env.fetch.fetched # {} /\ env.fetch.after = env.fetch.fetched
    /\ instances # {}

\* the fetch has raised after the registry was replaced by an earlier fetch, and
\* the registry is still the one the earlier fetch gave
C39_Witness ==
    /\ env.fetch.outcome = "error"
    /\ env.fetch.before # {}
    /\ instances = env.fetch.before
    /\ instances # Endpoints
    /\ \E n \in instances : n \in DOMAIN high_water_marks

(***************************************************************************)
(* _update_channel_topic with its awaits: SpecTopics.  The task of line    *)
(* 637 reads last_topic_update (line 237), awaits the players (line 243),  *)
(* awaits channel.edit (line 266) and only then writes last_topic_update   *)
(* (line 267); the loop spawns one such task per group every 2 seconds     *)
(* (line 429).  No console logs in these runs and the clock stands still:  *)
(* a behaviour is a few ticks long, well inside one span of 300 seconds,   *)
(* so a group with a last_topic_update has a recent one.                   *)
(***************************************************************************)
\* the lookups the topic tasks of one group begin in one behaviour
MaxLookups == 2

\* the calls of one kind that the topic tasks of a group have begun
TopicCalls(name, call) == CopiesIn([group |-> name, call |-> call], topic_calls)

\* lines 230-243: the task up to the await of the players
topic_check(name) ==
    LET group_data == GroupNamed(name)
        channel == group_data.channel_id
        recent == name \in last_topic_update                      \* line 240
    IN  /\ san_pc = "off"
        /\ env.topics
        /\ name \in topic_tasks
        /\ TopicCalls(name, "lookup") < MaxLookups
        /\ topic_tasks' = topic_tasks \ {name}
        /\ IF channel = NoChannel \/ recent
           THEN UNCHANGED <<topic_runs, topic_calls>>
           ELSE /\ topic_runs' = topic_runs (+) SetToBag({[group |-> name, pc |-> "lookup",
                                                           topic |-> <<>>]})
                /\ topic_calls' = topic_calls (+) SetToBag({[group |-> name, call |-> "lookup"]})
        /\ last' = EmptyDict
        /\ polls' = EmptyDict
        /\ UNCHANGED <<bridge_data, instances, high_water_marks, failure_counts, sessions,
                       log, clock, sent, sink_posts, cmd_tasks, fails_left,
                       env, seed, accepted, covered, health, console_listeners, waiting,
                       handled, replies, san_vars, loaded, loop, relayed, chats, tried, ended,
                       posted, hung, last_topic_update, channel_topic>>

\* lines 243-266: the players are there; the topic is built and, when the
\* channel has another, channel.edit is awaited
topic_lookup(r, status) ==
    LET group_data == GroupNamed(r.group)
        channel == group_data.channel_id
        topic == TopicText(_get_online_players(group_data, status))
    IN  /\ san_pc = "off"
        /\ r \in BagToSet(topic_runs)
        /\ r.pc = "lookup"
        /\ IF Get(channel_topic, channel, <<>>) = topic                \* line 264
           THEN /\ topic_runs' = topic_runs (-) SetToBag({r})
                /\ UNCHANGED topic_calls
           ELSE /\ topic_runs' = (topic_runs (-) SetToBag({r}))
                                 (+) SetToBag({[group |-> r.group, pc |-> "edit",
                                                topic |-> topic]})
                /\ topic_calls' = topic_calls (+) SetToBag({[group |-> r.group, call |-> "edit"]})
        /\ last' = EmptyDict
        /\ polls' = EmptyDict
        /\ UNCHANGED <<bridge_data, instances, high_water_marks, failure_counts, sessions,
                       log, clock, sent, sink_posts, cmd_tasks, topic_tasks, fails_left,
                       env, seed, accepted, covered, health, console_listeners, waiting,
                       handled, replies, san_vars, loaded, loop, relayed, chats, tried, ended,
                       posted, hung, last_topic_update, channel_topic>>

\* lines 266-269: channel.edit has returned or raised
topic_edit(r, outcome) ==
    LET channel == GroupNamed(r.group).channel_id
    IN  /\ san_pc = "off"
        /\ r \in BagToSet(topic_runs)
        /\ r.pc = "edit"
        /\ outcome \in {"ok", "error"} \cap DiscordOutcomes("channel_edit")
        /\ topic_runs' = topic_runs (-) SetToBag({r})
        /\ IF outcome = "ok"
           THEN /\ channel_topic' =
                       [c \in DOMAIN channel_topic \cup {channel} |->
                           IF c = channel THEN r.topic ELSE channel_topic[c]]
                /\ last_topic_update' = last_topic_update \cup {r.group}
           ELSE UNCHANGED <<last_topic_update, channel_topic>>
        /\ last' = EmptyDict
        /\ polls' = EmptyDict
        /\ UNCHANGED <<bridge_data, instances, high_water_marks, failure_counts, sessions,
                       log, clock, sent, sink_posts, cmd_tasks, topic_tasks, fails_left,
                       env, seed, accepted, covered, health, console_listeners, waiting,
                       handled, replies, san_vars, loaded, loop, relayed, chats, tried, ended,
                       posted, hung, topic_calls>>

\* one group and two, no console lines, servers that report players, a Discord
\* that answers or fails
TopicScenarios ==
    { [Scenario(OneGroup, {}, {}, FALSE, FALSE)
          EXCEPT !.players = PlayerLists, !.discord = {"ok", "error"}, !.topics = TRUE],
      [Scenario(TwoGroups, {}, {}, FALSE, FALSE)
          EXCEPT !.topics = TRUE] }

TopicInit ==
    /\ \E sc \in TopicScenarios : InitScenario(sc)
    /\ InitEngine
    /\ text = <<>>
    /\ safe = <<>>
    /\ san_pc = "off"

TopicNext ==
    \/ sync_loop
    \/ \E name \in topic_tasks : topic_check(name)
    \/ \E r \in BagToSet(topic_runs), status \in TaskStatuses : topic_lookup(r, status)
    \/ \E r \in BagToSet(topic_runs), outcome \in {"ok", "error"} : topic_edit(r, outcome)

SpecTopics == TopicInit /\ [][TopicNext]_vars

\* C40: within one span of 300 seconds the topic tasks of a group begin at
\* most one lookup of the players online and at most one edit of the channel
\* topic, however the tasks of successive ticks interleave.
C40_TopicRateLimit ==
    \A i \in 1..Len(Groups) :
        /\ TopicCalls(Groups[i].name, "lookup") <= 1
        /\ TopicCalls(Groups[i].name, "edit") <= 1

====
